---- MODULE Spec2Model ----
(***************************************************************************)
(* State machine of the ARCOR2 server node (arcor2/nodes/server.py):       *)
(* the module-level state (SCENE, PROJECT, the instance registries, the    *)
(* manager request queue and response slots), the RPC and event handlers   *)
(* that change it, and the manager client coroutine.                       *)
(* A coroutine that awaits between a check and the mutation that relies on *)
(* it is split at that await, so that handlers of other clients interleave.*)
(***************************************************************************)
EXTENDS Integers, Sequences, FiniteSets, TLC

\* Python's None
None == [none |-> TRUE]

\* ------------------------------------------------------------------------
\* Bounds of the model
\* ------------------------------------------------------------------------
\* longest SCENE.objects list the model lets grow
MaxObjects == 3
\* longest SCENE.services list the model lets grow
MaxServices == 3

\* coroutines that call manager_request at the same time
NumCallers == 2
\* largest correlation id a request carries
MaxRequestId == 2
\* client channels (websockets) that connect to the server
NumChannels == 2
\* broadcast sends to one channel that are followed
MaxOutbox == 1
\* detached coroutines that have not finished
MaxDetached == 2

\* interleaved client handler coroutines
Tasks == {"t1", "t2"}

Poses == {0}
ConfigurationIds == {"c1"}

\* ------------------------------------------------------------------------
\* Catalogue loaded at start-up (OBJECT_TYPES, SERVICE_TYPES)
\* ------------------------------------------------------------------------
OBJECT_TYPES ==
    [Box     |-> [needs_services |-> {}, abstract |-> FALSE, object_model |-> TRUE,
                  mesh |-> FALSE, focus_points |-> 0],
     Tool    |-> [needs_services |-> {"RobotSvc"}, abstract |-> FALSE, object_model |-> TRUE,
                  mesh |-> TRUE, focus_points |-> 2],
     Generic |-> [needs_services |-> {}, abstract |-> TRUE, object_model |-> FALSE,
                  mesh |-> FALSE, focus_points |-> 0]]

SERVICE_TYPES == {"RobotSvc", "ArmSvc"}

\* ROBOT_META[type].features.focus
ROBOT_META == [RobotSvc |-> [focus |-> TRUE], ArmSvc |-> [focus |-> FALSE]]

\* robot_srv_inst.get_robot_ids(), robot_srv_inst.get_end_effectors_ids(robot_id)
get_robot_ids(type) == {"r1", "r2"}
get_end_effectors_ids(type, robot_id) == {"e1"}

\* issubclass(cls_def, RobotService) / isinstance(srv, RobotService)
RobotService(type) == type \in {"RobotSvc", "ArmSvc"}

\* otu.built_in_types_names()
built_in_types_names == {"Generic"}

\* hlp.is_valid_identifier
is_valid_identifier(id) == id \notin {"9"}

\* cls.from_services(*args): the instances a service-backed type enumerates
from_services(type) ==
    IF type = "Tool" THEN << [id |-> "b", type |-> "Tool", pose |-> 0],
                             [id |-> "9", type |-> "Tool", pose |-> 0] >>
    ELSE << >>

\* ------------------------------------------------------------------------
\* Persistent storage (external collaborator): scenes and projects it holds
\* ------------------------------------------------------------------------
STORED_SCENES ==
    [s1 |-> [id |-> "s1",
             objects  |-> << [id |-> "a", type |-> "Box", pose |-> 0] >>,
             services |-> << >>],
     s2 |-> [id |-> "s2",
             objects  |-> << [id |-> "a", type |-> "Tool", pose |-> 0] >>,
             services |-> << [type |-> "RobotSvc", configuration_id |-> "c1"] >>],
     s3 |-> [id |-> "s3",
             objects  |-> << [id |-> "a", type |-> "Tool", pose |-> 0],
                             [id |-> "ab", type |-> "Tool", pose |-> 0] >>,
             services |-> << [type |-> "RobotSvc", configuration_id |-> "c1"] >>]]

\* an action of a project: type is the id of the object or service it is
\* called on (action.parse_type()[0]); the value of a POSE / JOINTS parameter
\* is "<object id>.<action point id>.<name>", of which obj and ap are kept
ProjectAction(id, type, parameters, inputs, outputs) ==
    [id |-> id, type |-> type, parameters |-> parameters,
     inputs |-> inputs, outputs |-> outputs]

\* a project object with one action point holding one RobotJoints entry
ProjectObject(id, ap, actions) ==
    [id |-> id,
     action_points |-> << [id |-> ap, robot_joints |-> << [is_valid |-> TRUE] >>,
                           actions |-> actions] >>]

STORED_PROJECTS ==
    [p1 |-> [id |-> "p1", scene_id |-> "s1", objects |-> << >>],
     p3 |-> [id |-> "p3", scene_id |-> "s3",
             objects |-> <<
                ProjectObject("ab", "ap2", <<
                    ProjectAction("act2", "a", << >>, <<"start">>, <<"act3">>),
                    ProjectAction("act3", "RobotSvc",
                                  << [type |-> "pose", value |-> [obj |-> "a", ap |-> "ap1"]] >>,
                                  <<"act2">>, <<"act4">>),
                    ProjectAction("act4", "RobotSvc",
                                  << [type |-> "joints", value |-> [obj |-> "ab", ap |-> "ap2"]] >>,
                                  <<"act3">>, <<"end">>),
                    ProjectAction("act5", "ab", << >>, <<"act2">>, <<"end">>) >>),
                ProjectObject("a", "ap1", <<
                    ProjectAction("act1", "ab", << >>, <<"start">>, <<"end">>) >>) >>]]

\* ------------------------------------------------------------------------
\* State
\* ------------------------------------------------------------------------
VARIABLES
    SCENE,                      \* None or [id, objects, services]
    PROJECT,                    \* None or [id, scene_id]
    SCENE_OBJECT_INSTANCES,     \* dict: object id -> instance [type, pose]
    SERVICES_INSTANCES,         \* dict in insertion order: <<[type, configuration_id, collisions]>>
    tasks,                      \* per client coroutine: where it is suspended
    last,                       \* outcome of the latest handler step
    MANAGER_RPC_REQUEST_QUEUE,  \* asyncio.Queue of requests for the manager
    MANAGER_RPC_RESPONSES,      \* dict: request id -> asyncio.Queue(maxsize=1) of responses
    callers,                    \* per coroutine inside manager_request: [pc, req, resp]
    client,                     \* project_manager_client: [pc, msg, future]
    manager,                    \* the manager's end: [up, conn, inbox, wire]
    INTERFACES,                 \* set of registered client channels
    outbox,                     \* per channel: the sends made to it, in order
    reg,                        \* per channel: where its register coroutine is
    broken,                     \* channels on which a send fails
    FOCUS_OBJECT,               \* dict: object id -> captured points <<[idx, pose]>>, in insertion order
    FOCUS_OBJECT_ROBOT,         \* dict: object id -> robot reference [robot_id, end_effector]
    stored_scenes,              \* the storage: scene id -> scene
    stored_projects,            \* the storage: project id -> project
    detached                    \* the coroutines started with asyncio.ensure_future

server_vars == <<SCENE, PROJECT, SCENE_OBJECT_INSTANCES, SERVICES_INSTANCES>>
bridge_vars == <<MANAGER_RPC_REQUEST_QUEUE, MANAGER_RPC_RESPONSES, callers, client, manager>>
hub_vars == <<INTERFACES, outbox, reg, broken>>
\* the state outside the scene handlers and the manager bridge
focus_vars == <<FOCUS_OBJECT, FOCUS_OBJECT_ROBOT>>
store_vars == <<stored_scenes, stored_projects, detached>>
ext_vars == <<hub_vars, focus_vars, store_vars>>
vars == <<SCENE, PROJECT, SCENE_OBJECT_INSTANCES, SERVICES_INSTANCES, tasks, last,
          MANAGER_RPC_REQUEST_QUEUE, MANAGER_RPC_RESPONSES, callers, client, manager,
          INTERFACES, outbox, reg, broken, FOCUS_OBJECT, FOCUS_OBJECT_ROBOT,
          stored_scenes, stored_projects, detached>>

\* ------------------------------------------------------------------------
\* dict and list helpers
\* ------------------------------------------------------------------------
EmptyDict == [k \in {} |-> None]
DictPut(d, k, v) == [x \in (DOMAIN d) \cup {k} |-> IF x = k THEN v ELSE d[x]]
DictDel(d, k) == [x \in (DOMAIN d) \ {k} |-> d[x]]

Range(s) == {s[i] : i \in DOMAIN s}
Filter(s, keep(_)) == SelectSeq(s, keep)

\* {obj.id for obj in scene.objects}, {srv.type for srv in scene.services}
ObjectIds(scene) == {scene.objects[i].id : i \in DOMAIN scene.objects}
ServiceTypes(scene) == {scene.services[i].type : i \in DOMAIN scene.services}

\* SERVICES_INSTANCES.keys()
ServiceKeys(SI) == {SI[i].type : i \in DOMAIN SI}

Idle == [op |-> "idle", pc |-> "idle", arg |-> None]

Callers == 1..NumCallers
Channels == 1..NumChannels
NotRegistering == [pc |-> "none", action |-> FALSE, action_args |-> FALSE]
NotCalling == [pc |-> "idle", req |-> None, resp |-> None]
Slots == 1..MaxDetached
NotStarted == [op |-> "none"]

Outcome(op, step, kind, msg) == [op |-> op, step |-> step, kind |-> kind, msg |-> msg]

Init ==
    /\ SCENE = None
    /\ PROJECT = None
    /\ SCENE_OBJECT_INSTANCES = EmptyDict
    /\ SERVICES_INSTANCES = << >>
    /\ tasks = [t \in Tasks |-> Idle]
    /\ last = None
    /\ MANAGER_RPC_REQUEST_QUEUE = << >>
    /\ MANAGER_RPC_RESPONSES = EmptyDict
    /\ callers = [c \in Callers |-> NotCalling]
    /\ client = [pc |-> "connect", msg |-> None, future |-> "none"]
    /\ manager = [up |-> FALSE, conn |-> "none", inbox |-> {}, wire |-> << >>]
    /\ INTERFACES = {}
    /\ outbox = [ch \in Channels |-> << >>]
    /\ reg = [ch \in Channels |-> NotRegistering]
    /\ broken = {}
    /\ FOCUS_OBJECT = EmptyDict
    /\ FOCUS_OBJECT_ROBOT = EmptyDict
    /\ stored_scenes = STORED_SCENES
    /\ stored_projects = STORED_PROJECTS
    /\ detached = [i \in Slots |-> NotStarted]

\* ------------------------------------------------------------------------
\* Guards (decorators)
\* ------------------------------------------------------------------------
SceneNeededMsg == "Scene not opened or has invalid id."
NoProjectMsg == "Not available during project editing."
ProjectNeededMsg == "Project not opened or has invalid id."

scene_needed(S, P) == IF S = None \/ S.id = "" THEN SceneNeededMsg ELSE "ok"

\* a guard that lets a Project without an id through
no_project_ignoring_id(S, P) == IF P # None /\ P.id # "" THEN NoProjectMsg ELSE "ok"

no_project(S, P) == IF P # None THEN NoProjectMsg ELSE "ok"

project_needed(S, P) == IF P = None \/ P.id = "" THEN ProjectNeededMsg ELSE "ok"

\* the decorators of each handler, outermost (evaluated first) first
DECORATORS ==
    [save_scene_cb               |-> <<"scene_needed", "no_project">>,
     save_project_cb             |-> <<"scene_needed", "project_needed">>,
     open_scene_cb               |-> <<"no_project">>,
     open_project_cb             |-> << >>,
     add_object_to_scene_cb      |-> <<"scene_needed", "no_project">>,
     auto_add_object_to_scene_cb |-> <<"scene_needed", "no_project">>,
     add_service_to_scene_cb     |-> <<"scene_needed", "no_project">>,
     remove_from_scene_cb        |-> <<"scene_needed", "no_project">>,
     focus_object_start_cb       |-> <<"scene_needed", "no_project">>,
     focus_object_cb             |-> <<"no_project">>,
     update_action_object_cb     |-> <<"scene_needed", "no_project">>,
     focus_object_done_cb        |-> <<"scene_needed", "no_project">>]

async_wrapper(g, S, P) ==
    CASE g = "scene_needed"   -> scene_needed(S, P)
      [] g = "no_project"     -> no_project(S, P)
      [] g = "project_needed" -> project_needed(S, P)

\* message of the first wrapper that returns instead of awaiting the wrapped coroutine
RECURSIVE Wrapped(_, _, _)
Wrapped(gs, S, P) ==
    IF gs = << >> THEN "ok"
    ELSE LET r == async_wrapper(Head(gs), S, P)
         IN IF r # "ok" THEN r ELSE Wrapped(Tail(gs), S, P)

Guard(op) == Wrapped(DECORATORS[op], SCENE, PROJECT)

\* ------------------------------------------------------------------------
\* Registry: collision models, objects, services
\* ------------------------------------------------------------------------
\* index of the first RobotService instance in SERVICES_INSTANCES, 0 for None
find_robot_service(SI) ==
    IF \E i \in DOMAIN SI : RobotService(SI[i].type)
    THEN CHOOSE i \in DOMAIN SI :
            /\ RobotService(SI[i].type)
            /\ \A j \in 1..(i - 1) : ~RobotService(SI[j].type)
    ELSE 0

collision_model(inst) == OBJECT_TYPES[inst.type].object_model

\* collision(obj, rs, add=True): rs = 0 stands for rs=None
collision_add(SI, id, inst, rs) ==
    LET r == IF rs = 0 THEN find_robot_service(SI) ELSE rs
    IN IF ~collision_model(inst) \/ r = 0 THEN SI
       ELSE [SI EXCEPT ![r].collisions = @ \cup {id}]

\* collision(obj, rs, remove=True)
collision_remove(SI, id, inst, rs) ==
    LET r == IF rs = 0 THEN find_robot_service(SI) ELSE rs
    IN IF ~collision_model(inst) \/ r = 0 THEN SI
       ELSE [SI EXCEPT ![r].collisions = @ \ {id}]

\* checks of add_object_to_scene that do not look at the services
add_object_check_without_services(obj, srv_obj_ok, OI, SI) ==
    IF obj.type \notin DOMAIN OBJECT_TYPES THEN "Unknown object type."
    ELSE IF OBJECT_TYPES[obj.type].abstract THEN "Cannot instantiate abstract type."
    ELSE IF obj.id \in DOMAIN OI \/ obj.id \in ServiceKeys(SI)
    THEN "Object/service with that id already exists."
    ELSE IF ~is_valid_identifier(obj.id) THEN "Object ID invalid (should be snake_case)."
    ELSE "ok"

\* add_object_to_scene up to the first await: the checks
add_object_check(obj, srv_obj_ok, OI, SI) ==
    IF obj.type \notin DOMAIN OBJECT_TYPES THEN "Unknown object type."
    ELSE LET obj_meta == OBJECT_TYPES[obj.type] IN
         IF srv_obj_ok /\ ~(obj_meta.needs_services \subseteq SERVICE_TYPES)
         THEN "Some of required services is not available."
         ELSE IF srv_obj_ok /\ ~(obj_meta.needs_services \subseteq ServiceKeys(SI))
         THEN "Some of required services is not in the scene."
         ELSE IF ~srv_obj_ok /\ obj_meta.needs_services # {}
         THEN "Service(s)-based object."
         ELSE IF obj_meta.abstract
         THEN "Cannot instantiate abstract type."
         ELSE IF obj.id \in DOMAIN OI \/ obj.id \in ServiceKeys(SI)
         THEN "Object/service with that id already exists."
         ELSE IF ~is_valid_identifier(obj.id)
         THEN "Object ID invalid (should be snake_case)."
         ELSE "ok"

Result(kind, msg, S, OI, SI) ==
    [kind |-> kind, msg |-> msg, SCENE |-> S, OI |-> OI, SI |-> SI]

\* add_object_to_scene after the await: construct, register, append, add collision
add_object_create(obj, add_to_scene, S, OI, SI) ==
    IF ~(OBJECT_TYPES[obj.type].needs_services \subseteq ServiceKeys(SI))
    THEN Result("fail", "invalid typ annotation in the constructor", S, OI, SI)
    ELSE LET obj_inst == [type |-> obj.type, pose |-> obj.pose]
             OI2 == DictPut(OI, obj.id, obj_inst)
         IN IF add_to_scene /\ S = None
            THEN Result("raise", "AttributeError", S, OI2, SI)
            ELSE Result("ok", "ok",
                        IF add_to_scene THEN [S EXCEPT !.objects = Append(@, obj)] ELSE S,
                        OI2,
                        collision_add(SI, obj.id, obj_inst, 0))

\* add_service_to_scene up to the await of storage.get_service_type
add_service_check(srv, SI) ==
    IF srv.type \notin SERVICE_TYPES THEN "Unknown service type."
    ELSE IF srv.type \in ServiceKeys(SI) THEN "Service already in scene."
    ELSE "ok"

\* ... then up to the await of the constructor in the executor
add_service_robot_check(srv, SI) ==
    IF RobotService(srv.type) /\ find_robot_service(SI) # 0
    THEN "Scene might contain only one robot service."
    ELSE "ok"

\* ... then SERVICES_INSTANCES[srv.type] = srv_inst and the collision models
add_service_register(srv, SI, OI) ==
    LET srv_inst == [type |-> srv.type,
                     configuration_id |-> srv.configuration_id,
                     collisions |-> IF RobotService(srv.type)
                                    THEN {id \in DOMAIN OI : collision_model(OI[id])}
                                    ELSE {}]
    IN IF srv.type \in ServiceKeys(SI)
       THEN [i \in DOMAIN SI |-> IF SI[i].type = srv.type THEN srv_inst ELSE SI[i]]
       ELSE Append(SI, srv_inst)

\* add_service_to_scene run without interleaving (as open_scene awaits it)
add_service_to_scene(srv, SI, OI) ==
    IF add_service_check(srv, SI) # "ok" \/ add_service_robot_check(srv, SI) # "ok"
    THEN SI
    ELSE add_service_register(srv, SI, OI)

RECURSIVE open_scene_services(_, _, _)
open_scene_services(srvs, SI, OI) ==
    IF srvs = << >> THEN SI
    ELSE open_scene_services(Tail(srvs), add_service_to_scene(Head(srvs), SI, OI), OI)

\* the loop over SCENE.objects of open_scene; failures are only logged
RECURSIVE open_scene_objects(_, _, _, _)
open_scene_objects(objs, S, OI, SI) ==
    IF objs = << >> THEN Result("ok", "ok", S, OI, SI)
    ELSE LET obj == Head(objs)
             r == IF add_object_check(obj, TRUE, OI, SI) = "ok"
                  THEN add_object_create(obj, FALSE, S, OI, SI)
                  ELSE Result("fail", "", S, OI, SI)
         IN open_scene_objects(Tail(objs), S, r.OI, r.SI)

\* open_scene(scene_id)
open_scene(scene_id, S, OI, SI) ==
    IF scene_id \notin DOMAIN STORED_SCENES
    THEN Result("raise", "PersistentStorageException", S, OI, SI)
    ELSE LET S2 == STORED_SCENES[scene_id]
             SI2 == open_scene_services(S2.services, SI, OI)
             r == open_scene_objects(S2.objects, S2, OI, SI2)
         IN IF /\ ServiceTypes(S2) = ServiceKeys(r.SI)
               /\ ObjectIds(S2) = DOMAIN r.OI
            THEN Result("ok", "ok", S2, r.OI, r.SI)
            ELSE Result("raise", "AssertionError", S2, r.OI, r.SI)

\* the loop of auto_add_object_to_scene over cls.from_services(*args)
RECURSIVE auto_add_instances(_, _, _, _)
auto_add_instances(insts, S, OI, SI) ==
    IF insts = << >> THEN Result("ok", "ok", S, OI, SI)
    ELSE LET o == Head(insts)
             obj_inst == [type |-> o.type, pose |-> o.pose]
         IN IF ~is_valid_identifier(o.id) \/ o.id \in DOMAIN OI
            THEN auto_add_instances(Tail(insts), S, OI, SI)
            ELSE auto_add_instances(Tail(insts),
                                    [S EXCEPT !.objects = Append(@, o)],
                                    DictPut(OI, o.id, obj_inst),
                                    collision_add(SI, o.id, obj_inst, 0))

\* auto_add_object_to_scene(obj_type_name)
auto_add_object_to_scene(obj_type_name, S, OI, SI) ==
    IF obj_type_name \notin DOMAIN OBJECT_TYPES
    THEN Result("fail", "Unknown object type.", S, OI, SI)
    ELSE IF obj_type_name \in built_in_types_names
    THEN Result("fail", "Does not work for built in types.", S, OI, SI)
    ELSE LET obj_meta == OBJECT_TYPES[obj_type_name] IN
         IF obj_meta.needs_services = {}
         THEN Result("fail", "Ordinary object.", S, OI, SI)
         ELSE IF obj_meta.abstract
         THEN Result("fail", "Cannot instantiate abstract type.", S, OI, SI)
         ELSE IF ~(obj_meta.needs_services \subseteq SERVICE_TYPES)
         THEN Result("fail", "Some of required services is not available.", S, OI, SI)
         ELSE IF ~(obj_meta.needs_services \subseteq ServiceKeys(SI))
         THEN Result("fail", "Some of required services is not in the scene.", S, OI, SI)
         ELSE auto_add_instances(from_services(obj_type_name), S, OI, SI)

\* f"Object {obj.id} ({obj.type}) relies on the service to be removed: {req.args.id}."
RelyingMsg(obj, id) ==
    "Object " \o obj.id \o " (" \o obj.type \o ") relies on the service to be removed: "
        \o id \o "."

\* a remove that does not look for objects relying on the service
remove_from_scene_unchecked(id, S, OI, SI) ==
    IF id \in ServiceKeys(SI)
    THEN Result("ok", "ok",
                [S EXCEPT !.services = SelectSeq(@, LAMBDA srv : srv.type # id)],
                OI,
                SelectSeq(SI, LAMBDA inst : inst.type # id))
    ELSE Result("ok", "ok", S, OI, SI)

\* body of remove_from_scene_cb
remove_from_scene(id, S, OI, SI) ==
    IF id \in DOMAIN OI
    THEN Result("ok", "ok",
                [S EXCEPT !.objects = SelectSeq(@, LAMBDA obj : obj.id # id)],
                DictDel(OI, id),
                collision_remove(SI, id, OI[id], 0))
    ELSE IF id \in ServiceKeys(SI)
    THEN LET relying == {i \in DOMAIN S.objects :
                            id \in OBJECT_TYPES[S.objects[i].type].needs_services}
         IN
         IF relying # {}
         THEN Result("fail",
                     RelyingMsg(S.objects[CHOOSE i \in relying : \A j \in relying : i <= j], id),
                     S, OI, SI)
         ELSE Result("ok", "ok",
                     [S EXCEPT !.services = SelectSeq(@, LAMBDA srv : srv.type # id)],
                     OI,
                     SelectSeq(SI, LAMBDA inst : inst.type # id))
    ELSE Result("fail", "Unknown id.", S, OI, SI)

\* scene_change, clearing: collision(obj_inst, rs, remove=True) for every instance
RECURSIVE scene_change_collisions(_, _, _, _)
scene_change_collisions(ids, OI, SI, rs) ==
    IF rs = 0 \/ ids = {} THEN SI
    ELSE LET id == CHOOSE x \in ids : TRUE
         IN scene_change_collisions(ids \ {id}, OI, collision_remove(SI, id, OI[id], rs), rs)

\* SCENE_OBJECT_INSTANCES.clear(), SERVICES_INSTANCES.clear(): the instances are
\* dropped with the geometry their services hold at that time
dict_clear(d) == IF DOMAIN d = {} THEN d ELSE SubSeq(d, 1, 0)

\* body of scene_change(ui, event), data = event.data
scene_change(data, S, P, OI, SI) ==
    IF P # None
    THEN Result("event", "Scene changes not allowed when editing project.", S, OI, SI)
    ELSE IF data # None
    THEN IF \E i \in DOMAIN data.services : data.services[i].type \notin ServiceKeys(SI)
         THEN Result("event", "Ignoring scene changes: service added.", S, OI, SI)
         ELSE IF \E i \in DOMAIN data.objects : data.objects[i].id \notin DOMAIN OI
         THEN Result("event", "Ignoring scene changes: object added.", S, OI, SI)
         ELSE Result("event", "accepted", data, OI, SI)
    ELSE Result("event", "Clearing the scene.", None, EmptyDict,
                dict_clear(scene_change_collisions(DOMAIN OI, OI, SI, find_robot_service(SI))))

\* ------------------------------------------------------------------------
\* Requests and events the clients send
\* ------------------------------------------------------------------------
SceneObjects ==
    [id : {"a", "9"}, type : {"Box", "Tool", "Generic", "Nope"}, pose : Poses]

SceneServices ==
    [type : SERVICE_TYPES \cup {"Nope"}, configuration_id : ConfigurationIds]

RemoveIds == {"a", "b", "zz"} \cup SERVICE_TYPES

SceneIds == {"s1", "s2"}
ProjectIds == {"p1"}

\* replace / drop the i-th element of a list
SetAt(s, i, e) == [s EXCEPT ![i] = e]
DropAt(s, i) == SubSeq(s, 1, i - 1) \o SubSeq(s, i + 1, Len(s))

\* the Scene descriptors a SceneChangedEvent carries: a cleared scene, a new
\* empty scene, or the current scene edited by the client
SceneEventData ==
    {None}
    \cup [id : {"s1", ""}, objects : {<< >>}, services : {<< >>}]
    \cup (IF SCENE = None THEN {}
          ELSE {[SCENE EXCEPT !.objects = SetAt(@, i, [@[i] EXCEPT !.pose = p])] :
                    i \in DOMAIN SCENE.objects, p \in Poses}
               \cup {[SCENE EXCEPT !.objects = DropAt(@, i)] : i \in DOMAIN SCENE.objects}
               \cup {[SCENE EXCEPT !.services = DropAt(@, i)] : i \in DOMAIN SCENE.services}
               \cup {[SCENE EXCEPT !.objects = Append(@, o)] :
                        o \in {x \in SceneObjects : Len(SCENE.objects) < MaxObjects /\ x.type = "Box" /\ x.pose = 0}}
               \cup {[SCENE EXCEPT !.services = Append(@, v)] :
                        v \in {x \in SceneServices : Len(SCENE.services) < MaxServices}})

\* the Project descriptors a ProjectChangedEvent carries
ProjectEventData ==
    {None, [id |-> "", scene_id |-> "s2"]}

\* ------------------------------------------------------------------------
\* Handlers
\* ------------------------------------------------------------------------
Apply(r) ==
    /\ SCENE' = r.SCENE
    /\ SCENE_OBJECT_INSTANCES' = r.OI
    /\ SERVICES_INSTANCES' = r.SI

\* a handler step runs once the outcome of the previous one has been passed on
\* (the handlers of the scene and the project leave the manager bridge alone)
Respond(op, step, kind, msg) ==
    /\ last = None
    /\ last' = Outcome(op, step, kind, msg)
    /\ UNCHANGED <<bridge_vars, ext_vars>>

Suspend(t, op, pc, arg, step) ==
    /\ tasks' = [tasks EXCEPT ![t] = [op |-> op, pc |-> pc, arg |-> arg]]
    /\ Respond(op, step, "suspend", "")

Return(t, op, kind, msg) ==
    /\ tasks' = [tasks EXCEPT ![t] = Idle]
    /\ Respond(op, "resume", kind, msg)

\* number of coroutines suspended inside op
Suspended(op) == Cardinality({t \in Tasks : tasks[t].op = op})

\* add_object_to_scene_cb, up to the first await of add_object_to_scene
AddObjectToSceneCb(t, obj) ==
    /\ tasks[t] = Idle
    /\ LET g == Guard("add_object_to_scene_cb") IN
       IF g # "ok"
       THEN Respond("add_object_to_scene_cb", "dispatch", "fail", g)
            /\ UNCHANGED <<server_vars, tasks>>
       ELSE LET c == add_object_check(obj, FALSE, SCENE_OBJECT_INSTANCES, SERVICES_INSTANCES) IN
            IF c # "ok"
            THEN Respond("add_object_to_scene_cb", "dispatch", "fail", c)
                 /\ UNCHANGED <<server_vars, tasks>>
            ELSE /\ Len(SCENE.objects) + Suspended("add_object_to_scene_cb") < MaxObjects
                 /\ Suspend(t, "add_object_to_scene_cb", "create", obj, "dispatch")
                 /\ UNCHANGED server_vars

\* add_object_to_scene_cb, from the construction of the instance to the return
AddObjectToSceneCreate(t, constructed) ==
    /\ tasks[t].op = "add_object_to_scene_cb"
    /\ tasks[t].pc = "create"
    /\ UNCHANGED PROJECT
    /\ IF ~constructed
       THEN Return(t, "add_object_to_scene_cb", "fail", "System error")
            /\ UNCHANGED <<SCENE, SCENE_OBJECT_INSTANCES, SERVICES_INSTANCES>>
       ELSE LET r == add_object_create(tasks[t].arg, TRUE, SCENE,
                                       SCENE_OBJECT_INSTANCES, SERVICES_INSTANCES)
            IN Apply(r) /\ Return(t, "add_object_to_scene_cb", r.kind, r.msg)

\* auto_add_object_to_scene_cb
AutoAddObjectToSceneCb(obj_type_name) ==
    /\ UNCHANGED <<PROJECT, tasks>>
    /\ LET g == Guard("auto_add_object_to_scene_cb") IN
       IF g # "ok"
       THEN Respond("auto_add_object_to_scene_cb", "dispatch", "fail", g)
            /\ UNCHANGED <<SCENE, SCENE_OBJECT_INSTANCES, SERVICES_INSTANCES>>
       ELSE /\ Len(SCENE.objects) < MaxObjects
            /\ LET r == auto_add_object_to_scene(obj_type_name, SCENE,
                                                 SCENE_OBJECT_INSTANCES, SERVICES_INSTANCES)
               IN Apply(r) /\ Respond("auto_add_object_to_scene_cb", "dispatch", r.kind, r.msg)

\* add_service_to_scene_cb, up to the await of storage.get_service_type
AddServiceToSceneCb(t, srv) ==
    /\ tasks[t] = Idle
    /\ UNCHANGED server_vars
    /\ LET g == Guard("add_service_to_scene_cb") IN
       IF g # "ok"
       THEN Respond("add_service_to_scene_cb", "dispatch", "fail", g) /\ UNCHANGED tasks
       ELSE LET c == add_service_check(srv, SERVICES_INSTANCES) IN
            IF c # "ok"
            THEN Respond("add_service_to_scene_cb", "dispatch", "fail", c) /\ UNCHANGED tasks
            ELSE /\ Len(SCENE.services) + Suspended("add_service_to_scene_cb") < MaxServices
                 /\ Suspend(t, "add_service_to_scene_cb", "loaded", srv, "dispatch")

\* add_service_to_scene_cb, from the type definition to the await of the constructor
AddServiceToSceneLoaded(t) ==
    /\ tasks[t].op = "add_service_to_scene_cb"
    /\ tasks[t].pc = "loaded"
    /\ UNCHANGED server_vars
    /\ LET c == add_service_robot_check(tasks[t].arg, SERVICES_INSTANCES) IN
       IF c # "ok"
       THEN Return(t, "add_service_to_scene_cb", "fail", c)
       ELSE Suspend(t, "add_service_to_scene_cb", "construct", tasks[t].arg, "resume")

\* add_service_to_scene_cb, from the constructed instance to the return
AddServiceToSceneConstructed(t, constructed) ==
    /\ tasks[t].op = "add_service_to_scene_cb"
    /\ tasks[t].pc = "construct"
    /\ UNCHANGED <<PROJECT, SCENE_OBJECT_INSTANCES>>
    /\ IF ~constructed
       THEN Return(t, "add_service_to_scene_cb", "fail", "System error")
            /\ UNCHANGED <<SCENE, SERVICES_INSTANCES>>
       ELSE /\ SERVICES_INSTANCES' = add_service_register(tasks[t].arg, SERVICES_INSTANCES,
                                                          SCENE_OBJECT_INSTANCES)
            /\ IF SCENE = None
               THEN Return(t, "add_service_to_scene_cb", "raise", "AttributeError")
                    /\ UNCHANGED SCENE
               ELSE /\ SCENE' = [SCENE EXCEPT !.services = Append(@, tasks[t].arg)]
                    /\ Return(t, "add_service_to_scene_cb", "ok", "ok")

\* remove_from_scene_cb
RemoveFromSceneCb(id) ==
    /\ UNCHANGED <<PROJECT, tasks>>
    /\ LET g == Guard("remove_from_scene_cb") IN
       IF g # "ok"
       THEN Respond("remove_from_scene_cb", "dispatch", "fail", g)
            /\ UNCHANGED <<SCENE, SCENE_OBJECT_INSTANCES, SERVICES_INSTANCES>>
       ELSE LET r == remove_from_scene(id, SCENE, SCENE_OBJECT_INSTANCES, SERVICES_INSTANCES)
            IN Apply(r) /\ Respond("remove_from_scene_cb", "dispatch", r.kind, r.msg)

\* save_scene_cb: the scene goes to the storage
SaveSceneCb ==
    /\ UNCHANGED <<server_vars, tasks>>
    /\ LET g == Guard("save_scene_cb") IN
       IF g # "ok"
       THEN Respond("save_scene_cb", "dispatch", "fail", g)
       ELSE Respond("save_scene_cb", "dispatch", "ok", "ok")

\* save_project_cb: the project goes to the storage
SaveProjectCb ==
    /\ UNCHANGED <<server_vars, tasks>>
    /\ LET g == Guard("save_project_cb") IN
       IF g # "ok"
       THEN Respond("save_project_cb", "dispatch", "fail", g)
       ELSE Respond("save_project_cb", "dispatch", "ok", "ok")

\* open_scene_cb
OpenSceneCb(scene_id) ==
    /\ UNCHANGED <<PROJECT, tasks>>
    /\ LET g == Guard("open_scene_cb") IN
       IF g # "ok"
       THEN Respond("open_scene_cb", "dispatch", "fail", g)
            /\ UNCHANGED <<SCENE, SCENE_OBJECT_INSTANCES, SERVICES_INSTANCES>>
       ELSE LET r == open_scene(scene_id, SCENE, SCENE_OBJECT_INSTANCES, SERVICES_INSTANCES)
            IN Apply(r) /\ Respond("open_scene_cb", "dispatch", r.kind, r.msg)

\* open_project_cb: open_project(req.args.id)
OpenProjectCb(project_id) ==
    /\ UNCHANGED tasks
    /\ IF project_id \notin DOMAIN STORED_PROJECTS
       THEN Respond("open_project_cb", "dispatch", "raise", "PersistentStorageException")
            /\ UNCHANGED server_vars
       ELSE LET P2 == STORED_PROJECTS[project_id]
                r == open_scene(P2.scene_id, SCENE, SCENE_OBJECT_INSTANCES, SERVICES_INSTANCES)
            IN /\ PROJECT' = P2
               /\ Apply(r)
               /\ Respond("open_project_cb", "dispatch", r.kind, r.msg)

\* EVENT_DICT[SceneChangedEvent]
SceneChange(data) ==
    /\ UNCHANGED <<PROJECT, tasks>>
    /\ LET r == scene_change(data, SCENE, PROJECT, SCENE_OBJECT_INSTANCES, SERVICES_INSTANCES)
       IN Apply(r) /\ Respond("scene_change", "dispatch", r.kind, r.msg)

\* EVENT_DICT[ProjectChangedEvent]
ProjectChange(data) ==
    /\ PROJECT' = data
    /\ UNCHANGED <<SCENE, SCENE_OBJECT_INSTANCES, SERVICES_INSTANCES, tasks>>
    /\ Respond("project_change", "dispatch", "event", "accepted")

\* hlp.server: the outcome of the step goes to the client (or to the log)
Sent ==
    /\ last # None
    /\ last' = None
    /\ UNCHANGED <<server_vars, tasks, bridge_vars, ext_vars>>

\* one client coroutine inside a handler at a time
Clients == {"t1"}

Next ==
    \/ \E t \in Clients, obj \in SceneObjects : AddObjectToSceneCb(t, obj)
    \/ \E t \in Clients, constructed \in BOOLEAN : AddObjectToSceneCreate(t, constructed)
    \/ \E type \in {"Box", "Tool", "Generic", "Nope"} : AutoAddObjectToSceneCb(type)
    \/ \E t \in Clients, srv \in SceneServices : AddServiceToSceneCb(t, srv)
    \/ \E t \in Clients : AddServiceToSceneLoaded(t)
    \/ \E t \in Clients, constructed \in BOOLEAN : AddServiceToSceneConstructed(t, constructed)
    \/ \E id \in RemoveIds : RemoveFromSceneCb(id)
    \/ SaveSceneCb
    \/ SaveProjectCb
    \/ \E scene_id \in SceneIds \cup {"s9"} : OpenSceneCb(scene_id)
    \/ \E project_id \in ProjectIds \cup {"p9"} : OpenProjectCb(project_id)
    \/ \E data \in SceneEventData : SceneChange(data)
    \/ \E data \in ProjectEventData : ProjectChange(data)
    \/ Sent

Spec == Init /\ [][Next]_vars

\* ------------------------------------------------------------------------
\* Manager bridge: manager_request, project_manager_client,
\* handle_manager_incoming_messages
\* ------------------------------------------------------------------------
Requests == [id : 1..MaxRequestId, request : {"ProjectState", "RunProject"}]

\* the response the manager gives to a request
ResponseTo(req) == [id |-> req.id, response |-> req.request]

BridgeStep == UNCHANGED <<server_vars, tasks, last, ext_vars>>

\* manager_request without its assertion
manager_request_unchecked(req, R) == TRUE

\* manager_request that leaves its slot behind
manager_request_keeps_slot(req, R) == R

\* assert req.id not in MANAGER_RPC_RESPONSES
manager_request_assert(req, R) == req.id \notin DOMAIN R

\* MANAGER_RPC_RESPONSES[req.id] = RespQueue(maxsize=1)
manager_request_register(req, R) == DictPut(R, req.id, << >>)

\* del MANAGER_RPC_RESPONSES[req.id]
manager_request_deregister(req, R) == DictDel(R, req.id)

\* MANAGER_RPC_RESPONSES[resp.id].put_nowait(resp)
put_nowait(resp, R) == [R EXCEPT ![resp.id] = Append(@, resp)]

\* a failed send that forgets the request it held
requeue_dropped(Q, msg) == Q

\* await MANAGER_RPC_REQUEST_QUEUE.put(msg) after a failed send
requeue(Q, msg) == Append(Q, msg)

\* manager_request(req) up to the await of the response
ManagerRequest(c, req) ==
    /\ callers[c].pc = "idle"
    /\ BridgeStep
    /\ UNCHANGED <<client, manager>>
    /\ IF ~manager_request_assert(req, MANAGER_RPC_RESPONSES)
       THEN /\ callers' = [callers EXCEPT ![c] = [pc |-> "raised", req |-> req, resp |-> None]]
            /\ UNCHANGED <<MANAGER_RPC_REQUEST_QUEUE, MANAGER_RPC_RESPONSES>>
       ELSE /\ MANAGER_RPC_RESPONSES' = manager_request_register(req, MANAGER_RPC_RESPONSES)
            /\ MANAGER_RPC_REQUEST_QUEUE' = Append(MANAGER_RPC_REQUEST_QUEUE, req)
            /\ callers' = [callers EXCEPT ![c] = [pc |-> "awaiting", req |-> req, resp |-> None]]

\* manager_request(req) from the response in its slot to the return
ManagerRequestReturn(c) ==
    /\ callers[c].pc = "awaiting"
    /\ callers[c].req.id \in DOMAIN MANAGER_RPC_RESPONSES
    /\ MANAGER_RPC_RESPONSES[callers[c].req.id] # << >>
    /\ BridgeStep
    /\ UNCHANGED <<MANAGER_RPC_REQUEST_QUEUE, client, manager>>
    /\ callers' = [callers EXCEPT ![c] =
                      [pc |-> "returned", req |-> @.req,
                       resp |-> Head(MANAGER_RPC_RESPONSES[callers[c].req.id])]]
    /\ MANAGER_RPC_RESPONSES' = manager_request_deregister(callers[c].req, MANAGER_RPC_RESPONSES)

\* the caller of manager_request goes on with the response, or with the AssertionError
CallerDone(c) ==
    /\ callers[c].pc \in {"returned", "raised"}
    /\ callers' = [callers EXCEPT ![c] = NotCalling]
    /\ BridgeStep
    /\ UNCHANGED <<MANAGER_RPC_REQUEST_QUEUE, MANAGER_RPC_RESPONSES, client, manager>>

\* project_manager_client: websockets.connect(MANAGER_URL) succeeds, the receiver starts
Connect ==
    /\ client.pc = "connect"
    /\ manager.up
    /\ client' = [pc |-> "loop", msg |-> None, future |-> "running"]
    /\ manager' = [manager EXCEPT !.conn = "open", !.inbox = {}, !.wire = << >>]
    /\ BridgeStep
    /\ UNCHANGED <<MANAGER_RPC_REQUEST_QUEUE, MANAGER_RPC_RESPONSES, callers>>

\* project_manager_client: ConnectionRefusedError, sleep, next attempt
ConnectionRefused ==
    /\ client.pc = "connect"
    /\ ~manager.up
    /\ BridgeStep
    /\ UNCHANGED bridge_vars

\* a connection loop that stays in its inner loop when the receiver has ended
LoopBreakMissing ==
    /\ client.pc = "loop"
    /\ client.future = "done"
    /\ UNCHANGED vars

\* project_manager_client: future.done() ends the inner loop and the connection
LoopBreak ==
    /\ client.pc = "loop"
    /\ client.future = "done"
    /\ client' = [pc |-> "connect", msg |-> None, future |-> "none"]
    /\ manager' = [manager EXCEPT !.conn = "none", !.inbox = {}, !.wire = << >>]
    /\ BridgeStep
    /\ UNCHANGED <<MANAGER_RPC_REQUEST_QUEUE, MANAGER_RPC_RESPONSES, callers>>

\* project_manager_client: asyncio.wait_for(MANAGER_RPC_REQUEST_QUEUE.get(), 1.0)
LoopGet ==
    /\ client.pc = "loop"
    /\ client.future # "done"
    /\ MANAGER_RPC_REQUEST_QUEUE # << >>
    /\ client' = [client EXCEPT !.pc = "send", !.msg = Head(MANAGER_RPC_REQUEST_QUEUE)]
    /\ MANAGER_RPC_REQUEST_QUEUE' = Tail(MANAGER_RPC_REQUEST_QUEUE)
    /\ BridgeStep
    /\ UNCHANGED <<MANAGER_RPC_RESPONSES, callers, manager>>

\* project_manager_client: manager_client.send(msg.to_json())
\* (last keeps the latest request that a failed send put back)
Send ==
    /\ client.pc = "send"
    /\ UNCHANGED <<server_vars, tasks, ext_vars>>
    /\ UNCHANGED <<MANAGER_RPC_RESPONSES, callers>>
    /\ IF manager.conn = "open"
       THEN /\ manager' = [manager EXCEPT !.inbox = @ \cup {client.msg}]
            /\ client' = [client EXCEPT !.pc = "loop", !.msg = None]
            /\ UNCHANGED <<MANAGER_RPC_REQUEST_QUEUE, last>>
       ELSE /\ MANAGER_RPC_REQUEST_QUEUE' = requeue(MANAGER_RPC_REQUEST_QUEUE, client.msg)
            /\ last' = Outcome("project_manager_client", "send", "requeued", client.msg)
            /\ client' = [pc |-> "connect", msg |-> None, future |-> "none"]
            /\ manager' = [manager EXCEPT !.conn = "none", !.inbox = {}, !.wire = << >>]

\* handle_manager_incoming_messages: a response frame arrives
ReceiveResponse ==
    /\ client.future = "running"
    /\ manager.conn = "open"
    /\ manager.wire # << >>
    /\ BridgeStep
    /\ UNCHANGED <<MANAGER_RPC_REQUEST_QUEUE, callers>>
    /\ manager' = [manager EXCEPT !.wire = Tail(@)]
    /\ LET resp == Head(manager.wire) IN
       IF resp.id \notin DOMAIN MANAGER_RPC_RESPONSES
          \/ MANAGER_RPC_RESPONSES[resp.id] # << >>
       THEN \* KeyError / asyncio.QueueFull ends the receiver
            /\ client' = [client EXCEPT !.future = "done"]
            /\ UNCHANGED MANAGER_RPC_RESPONSES
       ELSE /\ MANAGER_RPC_RESPONSES' = put_nowait(resp, MANAGER_RPC_RESPONSES)
            /\ UNCHANGED client

\* handle_manager_incoming_messages: websockets.exceptions.ConnectionClosed
ReceiveClosed ==
    /\ client.future = "running"
    /\ manager.conn = "closed"
    /\ client' = [client EXCEPT !.future = "done"]
    /\ BridgeStep
    /\ UNCHANGED <<MANAGER_RPC_REQUEST_QUEUE, MANAGER_RPC_RESPONSES, callers, manager>>

\* the manager answers one of the requests it has received, in any order
ManagerResponds(req) ==
    /\ manager.conn = "open"
    /\ req \in manager.inbox
    /\ manager' = [manager EXCEPT !.inbox = @ \ {req}, !.wire = Append(@, ResponseTo(req))]
    /\ BridgeStep
    /\ UNCHANGED <<MANAGER_RPC_REQUEST_QUEUE, MANAGER_RPC_RESPONSES, callers, client>>

\* the manager process starts
ManagerUp ==
    /\ ~manager.up
    /\ manager' = [manager EXCEPT !.up = TRUE]
    /\ BridgeStep
    /\ UNCHANGED <<MANAGER_RPC_REQUEST_QUEUE, MANAGER_RPC_RESPONSES, callers, client>>

\* the manager process stops: an open connection is closed, what it held is gone
ManagerDown ==
    /\ manager.up
    /\ manager' = [up |-> FALSE,
                   conn |-> IF manager.conn = "open" THEN "closed" ELSE manager.conn,
                   inbox |-> {}, wire |-> << >>]
    /\ BridgeStep
    /\ UNCHANGED <<MANAGER_RPC_REQUEST_QUEUE, MANAGER_RPC_RESPONSES, callers, client>>

BridgeNext ==
    \/ \E c \in Callers, req \in Requests : ManagerRequest(c, req)
    \/ \E c \in Callers : ManagerRequestReturn(c)
    \/ \E c \in Callers : CallerDone(c)
    \/ Connect
    \/ ConnectionRefused
    \/ LoopBreak
    \/ LoopGet
    \/ Send
    \/ ReceiveResponse
    \/ ReceiveClosed
    \/ \E req \in Requests : ManagerResponds(req)
    \/ ManagerUp
    \/ ManagerDown

BridgeSpec == Init /\ [][BridgeNext]_vars

\* the event loop runs every coroutine that is ready: the connection loop and
\* the receiver take their next step whenever they can
BridgeFairness ==
    /\ WF_vars(Connect)
    /\ WF_vars(LoopBreak)
    /\ WF_vars(LoopGet)
    /\ WF_vars(Send)
    /\ WF_vars(ReceiveResponse)
    /\ WF_vars(ReceiveClosed)

BridgeLiveSpec == Init /\ [][BridgeNext]_vars /\ BridgeFairness

\* ------------------------------------------------------------------------
\* Connection hub: register, unregister, notify
\* ------------------------------------------------------------------------
HubStep == UNCHANGED <<server_vars, tasks, focus_vars, store_vars>>

\* one websocket.send / interface.send inside asyncio.wait: the send is made,
\* and an exception of it stays inside the awaited task
Sending(box, ch, src, event) ==
    Append(box, [src |-> src, event |-> event, ok |-> ch \notin broken])

\* a register that sends the project snapshot before the scene snapshot
register_item_swapped(pc) ==
    CASE pc = "scene"   -> "ProjectChanged"
      [] pc = "project" -> "SceneChanged"
      [] pc = "state"   -> "ProjectState"
      [] pc = "action"  -> "ActionState"
      [] pc = "args"    -> "CurrentAction"

\* the event that register sends at each of its steps
register_item(pc) ==
    CASE pc = "scene"   -> "SceneChanged"
      [] pc = "project" -> "ProjectChanged"
      [] pc = "state"   -> "ProjectState"
      [] pc = "action"  -> "ActionState"
      [] pc = "args"    -> "CurrentAction"

\* rpc.ProjectStateRequest(id=uuid.uuid4().int)
ProjectStateRequest(ch) == [id |-> ch, request |-> "ProjectState"]

\* exclude_ui=None: no channel is excluded (channels are numbered from 1)
NoChannel == 0

\* the channels that notify(event, exclude_ui) sends to
notify_targets(I, exclude_ui) ==
    IF (exclude_ui = NoChannel /\ I # {}) \/ (exclude_ui # NoChannel /\ Cardinality(I) > 1)
    THEN {intf \in I : intf # exclude_ui}
    ELSE {}

\* register: INTERFACES.add(websocket)
RegisterAdd(ch) ==
    /\ reg[ch].pc = "none"
    /\ INTERFACES' = INTERFACES \cup {ch}
    /\ reg' = [reg EXCEPT ![ch].pc = "scene"]
    /\ HubStep
    /\ UNCHANGED <<last, bridge_vars, outbox, broken>>

\* register: await notify_scene(websocket); await notify_project(websocket)
RegisterSnapshot(ch) ==
    /\ reg[ch].pc \in {"scene", "project"}
    /\ outbox' = [outbox EXCEPT ![ch] = Sending(@, ch, "register", register_item(reg[ch].pc))]
    /\ reg' = [reg EXCEPT ![ch].pc = IF reg[ch].pc = "scene" THEN "project" ELSE "request"]
    /\ HubStep
    /\ UNCHANGED <<last, bridge_vars, INTERFACES, broken>>

\* register: manager_request(rpc.ProjectStateRequest(...)) up to awaiting the response
RegisterRequest(ch) ==
    /\ reg[ch].pc = "request"
    /\ manager_request_assert(ProjectStateRequest(ch), MANAGER_RPC_RESPONSES)
    /\ MANAGER_RPC_RESPONSES' = manager_request_register(ProjectStateRequest(ch), MANAGER_RPC_RESPONSES)
    /\ MANAGER_RPC_REQUEST_QUEUE' = Append(MANAGER_RPC_REQUEST_QUEUE, ProjectStateRequest(ch))
    /\ reg' = [reg EXCEPT ![ch].pc = "awaiting"]
    /\ HubStep
    /\ UNCHANGED <<last, callers, client, manager, INTERFACES, outbox, broken>>

\* register: the response arrives; websocket.send(ProjectStateEvent(...))
RegisterState(ch, action, action_args) ==
    /\ reg[ch].pc = "awaiting"
    /\ ch \in DOMAIN MANAGER_RPC_RESPONSES
    /\ MANAGER_RPC_RESPONSES[ch] # << >>
    /\ MANAGER_RPC_RESPONSES' = manager_request_deregister(ProjectStateRequest(ch), MANAGER_RPC_RESPONSES)
    /\ outbox' = [outbox EXCEPT ![ch] = Sending(@, ch, "register", register_item("state"))]
    /\ reg' = [reg EXCEPT ![ch] = [pc |-> IF action THEN "action"
                                          ELSE IF action_args THEN "args" ELSE "done",
                                   action |-> action, action_args |-> action_args]]
    /\ HubStep
    /\ UNCHANGED <<last, MANAGER_RPC_REQUEST_QUEUE, callers, client, manager, INTERFACES, broken>>

\* register: websocket.send(ActionStateEvent(...)), websocket.send(CurrentActionEvent(...))
RegisterAction(ch) ==
    /\ reg[ch].pc \in {"action", "args"}
    /\ outbox' = [outbox EXCEPT ![ch] = Sending(@, ch, "register", register_item(reg[ch].pc))]
    /\ reg' = [reg EXCEPT ![ch].pc = IF reg[ch].pc = "action" /\ reg[ch].action_args
                                     THEN "args" ELSE "done"]
    /\ HubStep
    /\ UNCHANGED <<last, bridge_vars, INTERFACES, broken>>

\* unregister: INTERFACES.remove(websocket); the connection is gone
Unregister(ch) ==
    /\ reg[ch].pc = "done"
    /\ INTERFACES' = INTERFACES \ {ch}
    /\ reg' = [reg EXCEPT ![ch] = NotRegistering]
    /\ outbox' = [outbox EXCEPT ![ch] = << >>]
    /\ broken' = broken \ {ch}
    /\ HubStep
    /\ UNCHANGED <<last, bridge_vars>>

\* notify(event, exclude_ui); last keeps the call and the channels it sent to
Notify(event, exclude_ui) ==
    LET targets == notify_targets(INTERFACES, exclude_ui) IN
    /\ \A ch \in targets :
          Cardinality({i \in DOMAIN outbox[ch] : outbox[ch][i].src = "notify"}) < MaxOutbox
    /\ outbox' = [ch \in Channels |->
                     IF ch \in targets THEN Sending(outbox[ch], ch, "notify", event)
                     ELSE outbox[ch]]
    /\ last' = Outcome("notify", exclude_ui, "returned", targets)
    /\ HubStep
    /\ UNCHANGED <<bridge_vars, INTERFACES, reg, broken>>

\* the connection of a client fails: what is sent to it from now on raises
ChannelBreaks(ch) ==
    /\ reg[ch].pc # "none"
    /\ ch \notin broken
    /\ broken' = broken \cup {ch}
    /\ HubStep
    /\ UNCHANGED <<last, bridge_vars, INTERFACES, outbox, reg>>

HubNext ==
    \/ \E ch \in Channels : RegisterAdd(ch)
    \/ \E ch \in Channels : RegisterSnapshot(ch)
    \/ \E ch \in Channels : RegisterRequest(ch)
    \/ \E ch \in Channels, action \in BOOLEAN, action_args \in BOOLEAN :
            RegisterState(ch, action, action_args)
    \/ \E ch \in Channels : RegisterAction(ch)
    \/ \E ch \in Channels : Unregister(ch)
    \/ \E exclude_ui \in Channels \cup {NoChannel} : Notify("SceneChanged", exclude_ui)
    \/ \E ch \in Channels : ChannelBreaks(ch)
    \/ ManagerUp
    \/ Connect
    \/ LoopGet
    \/ Send
    \/ \E ch \in Channels : ManagerResponds(ProjectStateRequest(ch))
    \/ ReceiveResponse

HubSpec == Init /\ [][HubNext]_vars

\* Two client coroutines inside the scene-edit handlers at the same time
RaceNext ==
    \/ \E data \in {None, [id |-> "s1", objects |-> << >>, services |-> << >>]} :
            SceneChange(data)
    \/ \E t \in Tasks, obj \in {x \in SceneObjects : x.type \in {"Box", "Tool"}} :
            AddObjectToSceneCb(t, obj)
    \/ \E t \in Tasks, constructed \in BOOLEAN : AddObjectToSceneCreate(t, constructed)
    \/ \E t \in Tasks, srv \in SceneServices : AddServiceToSceneCb(t, srv)
    \/ \E t \in Tasks : AddServiceToSceneLoaded(t)
    \/ \E t \in Tasks, constructed \in BOOLEAN : AddServiceToSceneConstructed(t, constructed)
    \/ \E id \in RemoveIds : RemoveFromSceneCb(id)
    \/ Sent

RaceSpec == Init /\ [][RaceNext]_vars

\* ------------------------------------------------------------------------
\* Focus calibration: focus_object_start_cb, focus_object_cb
\* ------------------------------------------------------------------------
\* the robot references a client passes
Robots ==
    [robot_id : {"r1", "r2", "a", "zz"}, end_effector : {"e1"}]
    \cup {[robot_id |-> "r1", end_effector |-> "e9"]}

FocusObjectIds == {"a", "zz"}
PointIndexes == {-1, 0, 1, 2}

\* a focus handler step: the outcome is recorded, the bridge and the hub stay
FocusRespond(op, step, kind, msg) ==
    /\ last = None
    /\ last' = Outcome(op, step, kind, msg)
    /\ UNCHANGED <<bridge_vars, hub_vars, store_vars>>

\* get_robot_instance up to its first await: the exception it raises, or the
\* robot service whose executor calls it awaits (no scene object is a Robot)
get_robot_instance(robot_id, OI, SI) ==
    IF robot_id \in DOMAIN OI
    THEN [raise |-> "Not a robot.", inst |-> None]
    ELSE IF find_robot_service(SI) = 0
         THEN [raise |-> "Unknown robot ID.", inst |-> None]
         ELSE [raise |-> "", inst |-> SI[find_robot_service(SI)]]

\* get_robot_instance after the executor calls returned
get_robot_instance_checked(inst, robot_id, end_effector_id) ==
    IF robot_id \notin get_robot_ids(inst.type) THEN "Unknown robot ID."
    ELSE IF end_effector_id \notin get_end_effectors_ids(inst.type, robot_id)
         THEN "Unknown end effector ID."
         ELSE "ok"

\* focus_object_start_cb, the checks before get_robot_instance
focus_object_start_check(obj_id, OI, R) ==
    IF obj_id \in DOMAIN R THEN "Focusing already started."
    ELSE IF obj_id \notin DOMAIN OI THEN "Unknown object."
         ELSE "ok"

\* focus_object_start_cb, the checks after get_robot_instance returned inst
focus_object_start_model_check(obj_id, inst, OI) ==
    IF ~ROBOT_META[inst.type].focus THEN "Robot/service does not support focusing."
    ELSE IF obj_id \notin DOMAIN OI THEN "KeyError"
    ELSE LET obj_type == OBJECT_TYPES[OI[obj_id].type] IN
         IF ~obj_type.object_model \/ ~obj_type.mesh
         THEN "Only available for objects with mesh model."
         ELSE IF obj_type.focus_points = 0 THEN "focusPoints not defined for the mesh."
              ELSE "ok"

\* list(FOCUS_OBJECT[obj_id].keys())
finished_indexes(points) == [i \in DOMAIN points |-> points[i].idx]

\* FOCUS_OBJECT[obj_id][pt_idx] = pose
focus_points_put(points, idx, pose) ==
    IF \E i \in DOMAIN points : points[i].idx = idx
    THEN [i \in DOMAIN points |-> IF points[i].idx = idx THEN [idx |-> idx, pose |-> pose]
                                  ELSE points[i]]
    ELSE Append(points, [idx |-> idx, pose |-> pose])

\* focus_object_start_cb, up to the await of get_robot_instance
FocusObjectStartCb(t, obj_id, robot) ==
    /\ tasks[t] = Idle
    /\ UNCHANGED <<server_vars, focus_vars>>
    /\ LET g == Guard("focus_object_start_cb")
           c == focus_object_start_check(obj_id, SCENE_OBJECT_INSTANCES, FOCUS_OBJECT_ROBOT)
           r == get_robot_instance(robot.robot_id, SCENE_OBJECT_INSTANCES, SERVICES_INSTANCES)
       IN IF g # "ok"
          THEN FocusRespond("focus_object_start_cb", "dispatch", "fail", g) /\ UNCHANGED tasks
          ELSE IF c # "ok"
          THEN FocusRespond("focus_object_start_cb", "dispatch", "fail", c) /\ UNCHANGED tasks
          ELSE IF r.raise # ""
          THEN FocusRespond("focus_object_start_cb", "dispatch", "fail", r.raise) /\ UNCHANGED tasks
          ELSE /\ tasks' = [tasks EXCEPT ![t] =
                                [op |-> "focus_object_start_cb", pc |-> "robot",
                                 arg |-> [object_id |-> obj_id, robot |-> robot, inst |-> r.inst]]]
               /\ FocusRespond("focus_object_start_cb", "dispatch", "suspend", "")

\* focus_object_start_cb, from the return of get_robot_instance to the return
FocusObjectStartResolved(t) ==
    /\ tasks[t].op = "focus_object_start_cb"
    /\ tasks[t].pc = "robot"
    /\ tasks' = [tasks EXCEPT ![t] = Idle]
    /\ UNCHANGED server_vars
    /\ LET a == tasks[t].arg
           e == get_robot_instance_checked(a.inst, a.robot.robot_id, a.robot.end_effector)
           c == focus_object_start_model_check(a.object_id, a.inst, SCENE_OBJECT_INSTANCES)
       IN IF e # "ok"
          THEN FocusRespond("focus_object_start_cb", "resume", "fail", e) /\ UNCHANGED focus_vars
          ELSE IF c = "KeyError"
          THEN FocusRespond("focus_object_start_cb", "resume", "raise", c) /\ UNCHANGED focus_vars
          ELSE IF c # "ok"
          THEN FocusRespond("focus_object_start_cb", "resume", "fail", c) /\ UNCHANGED focus_vars
          ELSE /\ FOCUS_OBJECT_ROBOT' = DictPut(FOCUS_OBJECT_ROBOT, a.object_id, a.robot)
               /\ FOCUS_OBJECT' = DictPut(FOCUS_OBJECT, a.object_id, << >>)
               /\ FocusRespond("focus_object_start_cb", "resume", "ok", "ok")

\* focus_object_cb, up to the await inside get_end_effector_pose
FocusObjectCb(t, obj_id, pt_idx) ==
    /\ tasks[t] = Idle
    /\ UNCHANGED <<server_vars, FOCUS_OBJECT_ROBOT>>
    /\ LET g == Guard("focus_object_cb")
           started == IF obj_id \in DOMAIN FOCUS_OBJECT THEN FOCUS_OBJECT
                      ELSE DictPut(FOCUS_OBJECT, obj_id, << >>)
       IN IF g # "ok"
          THEN FocusRespond("focus_object_cb", "dispatch", "fail", g)
               /\ UNCHANGED <<tasks, FOCUS_OBJECT>>
          ELSE IF obj_id \notin DOMAIN SCENE_OBJECT_INSTANCES
          THEN FocusRespond("focus_object_cb", "dispatch", "fail", "Unknown object_id.")
               /\ UNCHANGED <<tasks, FOCUS_OBJECT>>
          ELSE LET obj_type == OBJECT_TYPES[SCENE_OBJECT_INSTANCES[obj_id].type] IN
          IF ~obj_type.object_model \/ ~obj_type.mesh \/ obj_type.focus_points = 0
          THEN FocusRespond("focus_object_cb", "dispatch", "raise", "AssertionError")
               /\ UNCHANGED <<tasks, FOCUS_OBJECT>>
          ELSE IF pt_idx < 0 \/ pt_idx > obj_type.focus_points - 1
          THEN FocusRespond("focus_object_cb", "dispatch", "fail", "Index out of range.")
               /\ UNCHANGED <<tasks, FOCUS_OBJECT>>
          ELSE /\ FOCUS_OBJECT' = started
               /\ IF obj_id \notin DOMAIN FOCUS_OBJECT_ROBOT
                  THEN FocusRespond("focus_object_cb", "dispatch", "raise", "KeyError")
                       /\ UNCHANGED tasks
                  ELSE LET robot == FOCUS_OBJECT_ROBOT[obj_id]
                           r == get_robot_instance(robot.robot_id, SCENE_OBJECT_INSTANCES,
                                                   SERVICES_INSTANCES)
                       IN IF r.raise # ""
                          THEN FocusRespond("focus_object_cb", "dispatch", "raise", r.raise)
                               /\ UNCHANGED tasks
                          ELSE /\ tasks' = [tasks EXCEPT ![t] =
                                              [op |-> "focus_object_cb", pc |-> "pose",
                                               arg |-> [object_id |-> obj_id, idx |-> pt_idx,
                                                        robot |-> robot, inst |-> r.inst]]]
                               /\ FocusRespond("focus_object_cb", "dispatch", "suspend", "")

\* focus_object_cb, from the return of get_end_effector_pose to the return
FocusObjectCaptured(t, pose) ==
    /\ tasks[t].op = "focus_object_cb"
    /\ tasks[t].pc = "pose"
    /\ tasks' = [tasks EXCEPT ![t] = Idle]
    /\ UNCHANGED <<server_vars, FOCUS_OBJECT_ROBOT>>
    /\ LET a == tasks[t].arg
           e == get_robot_instance_checked(a.inst, a.robot.robot_id, a.robot.end_effector)
       IN IF e # "ok"
          THEN FocusRespond("focus_object_cb", "resume", "raise", e) /\ UNCHANGED FOCUS_OBJECT
          ELSE IF a.object_id \notin DOMAIN FOCUS_OBJECT
          THEN FocusRespond("focus_object_cb", "resume", "raise", "KeyError")
               /\ UNCHANGED FOCUS_OBJECT
          ELSE /\ FOCUS_OBJECT' = [FOCUS_OBJECT EXCEPT
                                     ![a.object_id] = focus_points_put(@, a.idx, pose)]
               /\ FocusRespond("focus_object_cb", "resume", "ok",
                               finished_indexes(FOCUS_OBJECT'[a.object_id]))

\* ------------------------------------------------------------------------
\* Storage: saving the scene, moving an object, the detached coroutines that
\* rewrite the stored projects
\* ------------------------------------------------------------------------
\* the poses a robot reports for its end effector
RobotPoses == {1}

\* the ids a client names in update-object-pose
UpdateIds == {"a", "ab", "r1"}

\* s.startswith(t) for the ids of the catalogue
startswith(s, t) == t \in (IF s = "ab" THEN {"a", "ab"} ELSE {s})

\* ActionIOEnum.set()
ActionIOEnum == {"start", "end"}

\* [f(x) for x in s]
MapSeq(s, f(_)) == [i \in DOMAIN s |-> f(s[i])]

\* a handler step that may write the storage or start a detached coroutine
StoreRespond(op, step, kind, msg) ==
    /\ last = None
    /\ last' = Outcome(op, step, kind, msg)
    /\ UNCHANGED <<bridge_vars, hub_vars, focus_vars>>

\* asyncio.ensure_future(coro) for each coroutine of the list
RECURSIVE ensure_future(_, _)
ensure_future(D, coros) ==
    IF coros = << >> THEN D
    ELSE LET i == CHOOSE k \in Slots : D[k] = NotStarted /\ \A j \in 1..(k - 1) : D[j] # NotStarted
         IN ensure_future([D EXCEPT ![i] = Head(coros)], Tail(coros))

FreeSlots(D) == Cardinality({i \in Slots : D[i] = NotStarted})

\* the coroutine objects handed to ensure_future
scene_object_pose_updated_coro(scene_id, obj_id) ==
    [op |-> "scene_object_pose_updated", obj_id |-> obj_id, scene_id |-> scene_id,
     pc |-> "start", todo |-> << >>, project |-> None, writes |-> 0]

remove_object_references_from_projects_coro(obj_id) ==
    [op |-> "remove_object_references_from_projects", obj_id |-> obj_id, scene_id |-> "",
     pc |-> "start", todo |-> << >>, project |-> None, writes |-> 0]

\* an action point holds an action whose type names obj_id
ap_uses(ap, obj_id) == \E k \in DOMAIN ap.actions : ap.actions[k].type = obj_id

\* index of the project object with the id, 0 if there is none
object_index(project, obj_id) ==
    IF \E k \in DOMAIN project.objects : project.objects[k].id = obj_id
    THEN CHOOSE k \in DOMAIN project.objects : project.objects[k].id = obj_id
    ELSE 0

\* the (object, action point) pairs at which projects_using_object reaches a
\* yield because of an action: those of the objects it visits before the
\* object with the id ends the loop
using_action_points(project, obj_id) ==
    LET self == object_index(project, obj_id)
        last_visited == IF self = 0 THEN Len(project.objects) ELSE self - 1
    IN {<<k, a>> \in (1..last_visited) \X (1..1) :
            /\ a \in DOMAIN project.objects[k].action_points
            /\ ap_uses(project.objects[k].action_points[a], obj_id)}

\* how often projects_using_object yields the project when the consumer leaves
\* the actions alone, and when the consumer filters them at the first yield
projects_using_object_yields(project, obj_id, filtering) ==
    LET by_action == Cardinality(using_action_points(project, obj_id))
        by_object == IF object_index(project, obj_id) = 0 THEN 0 ELSE 1
    IN (IF filtering /\ by_action > 0 THEN 1 ELSE by_action) + by_object

\* scene_object_pose_updated: the body of the loop over the projects
invalidate_joints(project, obj_id) ==
    [project EXCEPT !.objects = MapSeq(@, LAMBDA obj :
        IF obj.id # obj_id THEN obj
        ELSE [obj EXCEPT !.action_points = MapSeq(@, LAMBDA ap :
                [ap EXCEPT !.robot_joints = MapSeq(@, LAMBDA joints :
                    [joints EXCEPT !.is_valid = FALSE])])])]

\* the action has a POSE / JOINTS parameter whose value starts with obj_id
uses_invalid_param(act, obj_id) ==
    \E k \in DOMAIN act.parameters :
        /\ act.parameters[k].type \in {"joints", "pose"}
        /\ startswith(act.parameters[k].value.obj, obj_id)

\* remove_object_references_from_projects: the actions kept in an action point
remove_actions(actions, obj_id) ==
    SelectSeq(SelectSeq(actions, LAMBDA act : act.type # obj_id),
              LAMBDA act : ~uses_invalid_param(act, obj_id))

\* remove_object_references_from_projects: the body of the loop over the projects
\* the cleanup without the removal of the invalid inputs and outputs
remove_object_references_keeping_wiring(project, obj_id) ==
    LET objects == SelectSeq(project.objects, LAMBDA obj : obj.id # obj_id)
    IN [project EXCEPT !.objects = MapSeq(objects, LAMBDA obj :
            [obj EXCEPT !.action_points = MapSeq(@, LAMBDA ap :
                [ap EXCEPT !.actions = remove_actions(@, obj_id)])])]

remove_object_references(project, obj_id) ==
    LET objects == SelectSeq(project.objects, LAMBDA obj : obj.id # obj_id)
        pruned == MapSeq(objects, LAMBDA obj :
                    [obj EXCEPT !.action_points = MapSeq(@, LAMBDA ap :
                        [ap EXCEPT !.actions = remove_actions(@, obj_id)])])
        action_ids == UNION {UNION {{ap.actions[k].id : k \in DOMAIN ap.actions} :
                                        ap \in Range(obj.action_points)} :
                                obj \in Range(pruned)}
        valid_ids == action_ids \cup ActionIOEnum
    IN [project EXCEPT !.objects = MapSeq(pruned, LAMBDA obj :
            [obj EXCEPT !.action_points = MapSeq(@, LAMBDA ap :
                [ap EXCEPT !.actions = MapSeq(@, LAMBDA act :
                    [act EXCEPT !.inputs = SelectSeq(@, LAMBDA input : input \in valid_ids),
                                !.outputs = SelectSeq(@, LAMBDA output : output \in valid_ids)])])])]

\* index of the scene object with the id, 0 for SceneObjectNotFound
get_scene_object(scene, obj_id) ==
    IF \E k \in DOMAIN scene.objects : scene.objects[k].id = obj_id
    THEN CHOOSE k \in DOMAIN scene.objects : scene.objects[k].id = obj_id
    ELSE 0

\* save_scene_cb: the ids of the objects whose pose differs from the stored one,
\* in the order in which the loops reach them
RECURSIVE pose_changes(_, _)
pose_changes(old_objects, scene) ==
    IF old_objects = << >> THEN << >>
    ELSE LET old_obj == Head(old_objects)
             k == get_scene_object(scene, old_obj.id)
         IN (IF k # 0 /\ scene.objects[k].pose # old_obj.pose THEN <<old_obj.id>> ELSE << >>)
            \o pose_changes(Tail(old_objects), scene)

\* update_action_object_cb, up to the await inside get_end_effector_pose
UpdateActionObjectCb(t, id, robot) ==
    /\ tasks[t] = Idle
    /\ UNCHANGED <<server_vars, store_vars>>
    /\ LET g == Guard("update_action_object_cb")
           r == get_robot_instance(robot.robot_id, SCENE_OBJECT_INSTANCES, SERVICES_INSTANCES)
       IN IF g # "ok"
          THEN StoreRespond("update_action_object_cb", "dispatch", "fail", g) /\ UNCHANGED tasks
          ELSE IF id = robot.robot_id
          THEN StoreRespond("update_action_object_cb", "dispatch", "fail",
                            "Robot cannot update its own pose.") /\ UNCHANGED tasks
          ELSE IF get_scene_object(SCENE, id) = 0
          THEN StoreRespond("update_action_object_cb", "dispatch", "fail",
                            "Invalid action object.") /\ UNCHANGED tasks
          ELSE IF r.raise # ""
          THEN StoreRespond("update_action_object_cb", "dispatch", "raise", r.raise)
               /\ UNCHANGED tasks
          ELSE /\ tasks' = [tasks EXCEPT ![t] =
                                [op |-> "update_action_object_cb", pc |-> "pose",
                                 arg |-> [id |-> id, robot |-> robot, inst |-> r.inst]]]
               /\ StoreRespond("update_action_object_cb", "dispatch", "suspend", "")

\* update_action_object_cb, from the return of get_end_effector_pose to the
\* return: the pose goes to the scene object that was looked up before the await
UpdateActionObjectPose(t, pose, implemented) ==
    /\ tasks[t].op = "update_action_object_cb"
    /\ tasks[t].pc = "pose"
    /\ tasks' = [tasks EXCEPT ![t] = Idle]
    /\ UNCHANGED <<PROJECT, SCENE_OBJECT_INSTANCES, SERVICES_INSTANCES, store_vars>>
    /\ LET a == tasks[t].arg
           e == get_robot_instance_checked(a.inst, a.robot.robot_id, a.robot.end_effector)
           k == IF SCENE = None THEN 0 ELSE get_scene_object(SCENE, a.id)
       IN IF e # "ok"
          THEN StoreRespond("update_action_object_cb", "resume", "raise", e) /\ UNCHANGED SCENE
          ELSE IF ~implemented
          THEN StoreRespond("update_action_object_cb", "resume", "fail",
                            "The robot does not support getting pose.") /\ UNCHANGED SCENE
          ELSE /\ SCENE' = IF k = 0 THEN SCENE
                           ELSE [SCENE EXCEPT !.objects[k].pose = pose]
               /\ StoreRespond("update_action_object_cb", "resume", "ok", "ok")

\* save_scene_cb with the storage: the objects that moved since the scene was
\* stored get their joints invalidated by detached coroutines
SaveSceneCbStored ==
    /\ UNCHANGED <<server_vars, tasks, stored_projects>>
    /\ LET g == Guard("save_scene_cb") IN
       IF g # "ok"
       THEN StoreRespond("save_scene_cb", "dispatch", "fail", g)
            /\ UNCHANGED <<stored_scenes, detached>>
       ELSE LET moved == IF SCENE.id \in DOMAIN stored_scenes
                         THEN pose_changes(stored_scenes[SCENE.id].objects, SCENE)
                         ELSE << >>
            IN /\ Len(moved) <= FreeSlots(detached)
               /\ detached' = ensure_future(detached,
                                 MapSeq(moved, LAMBDA id :
                                            scene_object_pose_updated_coro(SCENE.id, id)))
               /\ stored_scenes' = DictPut(stored_scenes, SCENE.id, SCENE)
               /\ StoreRespond("save_scene_cb", "dispatch", "ok", "ok")

\* remove_from_scene_cb with the storage: a removal that succeeded starts the
\* detached clean-up of the stored projects
RemoveFromSceneCbStored(id) ==
    /\ UNCHANGED <<PROJECT, tasks, stored_scenes, stored_projects>>
    /\ LET g == Guard("remove_from_scene_cb") IN
       IF g # "ok"
       THEN StoreRespond("remove_from_scene_cb", "dispatch", "fail", g)
            /\ UNCHANGED <<SCENE, SCENE_OBJECT_INSTANCES, SERVICES_INSTANCES, detached>>
       ELSE LET r == remove_from_scene(id, SCENE, SCENE_OBJECT_INSTANCES, SERVICES_INSTANCES)
            IN /\ Apply(r)
               /\ StoreRespond("remove_from_scene_cb", "dispatch", r.kind, r.msg)
               /\ IF r.kind # "ok" THEN UNCHANGED detached
                  ELSE /\ FreeSlots(detached) > 0
                       /\ detached' = ensure_future(detached,
                                        <<remove_object_references_from_projects_coro(id)>>)

\* a detached step leaves the handlers' state alone and is logged
DetachedStep(i, step, kind) ==
    /\ UNCHANGED <<server_vars, tasks, stored_scenes>>
    /\ StoreRespond(detached[i].op, step, kind, detached[i].obj_id)

\* the start of a detached coroutine, up to the return of storage.get_projects()
DetachedStart(i) ==
    /\ detached[i] # NotStarted
    /\ detached[i].pc = "start"
    /\ UNCHANGED stored_projects
    /\ IF detached[i].op = "remove_object_references_from_projects" /\ SCENE = None
       THEN /\ detached' = [detached EXCEPT ![i] = NotStarted]
            /\ DetachedStep(i, "start", "raise")
       ELSE /\ detached' = [detached EXCEPT ![i] =
                [@ EXCEPT !.pc = "read",
                          !.scene_id = IF detached[i].op = "remove_object_references_from_projects"
                                       THEN SCENE.id ELSE @,
                          !.todo = <<"p1", "p3">>]]
            /\ DetachedStep(i, "start", "suspend")

\* projects_using_object: storage.get_project of the next project and the
\* consumer's changes to it up to its storage.update_project
DetachedRead(i) ==
    /\ detached[i] # NotStarted
    /\ detached[i].pc = "read"
    /\ detached[i].todo # << >>
    /\ UNCHANGED stored_projects
    /\ LET d == detached[i]
           project == stored_projects[Head(d.todo)]
           filtering == d.op = "remove_object_references_from_projects"
           n == IF project.scene_id # d.scene_id THEN 0
                ELSE projects_using_object_yields(project, d.obj_id, filtering)
       IN /\ detached' = [detached EXCEPT ![i] =
                IF n = 0 THEN [d EXCEPT !.todo = Tail(d.todo)]
                ELSE [d EXCEPT !.pc = "write", !.writes = n,
                               !.project = IF filtering
                                           THEN remove_object_references(project, d.obj_id)
                                           ELSE invalidate_joints(project, d.obj_id)]]
          /\ DetachedStep(i, "read", "suspend")

\* await storage.update_project(project), once for each yield of the project
DetachedWrite(i) ==
    /\ detached[i] # NotStarted
    /\ detached[i].pc = "write"
    /\ LET d == detached[i] IN
       /\ stored_projects' = [stored_projects EXCEPT ![d.project.id] = d.project]
       /\ detached' = [detached EXCEPT ![i] =
             IF d.writes > 1 THEN [d EXCEPT !.writes = @ - 1]
             ELSE [d EXCEPT !.pc = "read", !.writes = 0, !.project = None,
                            !.todo = Tail(d.todo)]]
    /\ DetachedStep(i, "write", "suspend")

\* the loop over the projects is over: the detached coroutine finishes
DetachedDone(i) ==
    /\ detached[i] # NotStarted
    /\ detached[i].pc = "read"
    /\ detached[i].todo = << >>
    /\ UNCHANGED stored_projects
    /\ detached' = [detached EXCEPT ![i] = NotStarted]
    /\ DetachedStep(i, "done", "ok")

\* one client on the scene s3 and the detached coroutines its requests start
StoreNext ==
    \/ SCENE = None /\ OpenSceneCb("s3")
    \/ \E t \in Clients, id \in UpdateIds, robot \in {x \in Robots : x.end_effector = "e1"} :
            UpdateActionObjectCb(t, id, robot)
    \/ \E t \in Clients, pose \in RobotPoses, implemented \in BOOLEAN :
            UpdateActionObjectPose(t, pose, implemented)
    \/ SaveSceneCbStored
    \/ \E id \in {"a", "RobotSvc", "zz"} : RemoveFromSceneCbStored(id)
    \/ \E i \in Slots : DetachedStart(i)
    \/ \E i \in Slots : DetachedRead(i)
    \/ \E i \in Slots : DetachedWrite(i)
    \/ \E i \in Slots : DetachedDone(i)
    \/ Sent

StoreSpec == Init /\ [][StoreNext]_vars

\* ------------------------------------------------------------------------
\* Focus calibration: focus_object_done_cb, clean_up_after_focus
\* ------------------------------------------------------------------------
\* the coroutine object of notify_scene_change_to_others()
notify_scene_change_to_others_coro ==
    [op |-> "notify_scene_change_to_others", obj_id |-> "", scene_id |-> "",
     pc |-> "notify", todo |-> << >>, project |-> None, writes |-> 0]

\* a clean-up that keeps the robot reference of the session
clean_up_after_focus_keeps_robot(d, obj_id) == d

\* clean_up_after_focus: del d[obj_id], a KeyError is passed over
clean_up_after_focus(d, obj_id) == DictDel(d, obj_id)

\* a commit that does not count the captured points
focus_object_done_uncounted(obj_id, OI, F, R) ==
    IF obj_id \notin DOMAIN F THEN "focusObjectStart/focusObject has to be called first."
    ELSE IF obj_id \notin DOMAIN OI THEN "KeyError"
    ELSE LET obj_type == OBJECT_TYPES[OI[obj_id].type] IN
         IF ~obj_type.object_model \/ ~obj_type.mesh \/ obj_type.focus_points = 0
         THEN "AssertionError"
         ELSE IF obj_id \notin DOMAIN R THEN "KeyError"
              ELSE "ok"

\* focus_object_done_cb, the checks before get_robot_instance
focus_object_done_check(obj_id, OI, F, R) ==
    IF obj_id \notin DOMAIN F THEN "focusObjectStart/focusObject has to be called first."
    ELSE IF obj_id \notin DOMAIN OI THEN "KeyError"
    ELSE LET obj_type == OBJECT_TYPES[OI[obj_id].type] IN
         IF ~obj_type.object_model \/ ~obj_type.mesh \/ obj_type.focus_points = 0
         THEN "AssertionError"
         ELSE IF Len(F[obj_id]) < obj_type.focus_points THEN "Not all points were done."
              ELSE IF obj_id \notin DOMAIN R THEN "KeyError"
                   ELSE "ok"

\* focus_object_done_cb, up to the await of get_robot_instance
FocusObjectDoneCb(t, obj_id) ==
    /\ tasks[t] = Idle
    /\ UNCHANGED <<server_vars, focus_vars>>
    /\ LET g == Guard("focus_object_done_cb")
           c == focus_object_done_check(obj_id, SCENE_OBJECT_INSTANCES,
                                        FOCUS_OBJECT, FOCUS_OBJECT_ROBOT)
       IN IF g # "ok"
          THEN FocusRespond("focus_object_done_cb", "dispatch", "fail", g) /\ UNCHANGED tasks
          ELSE IF c \in {"KeyError", "AssertionError"}
          THEN FocusRespond("focus_object_done_cb", "dispatch", "raise", c) /\ UNCHANGED tasks
          ELSE IF c # "ok"
          THEN FocusRespond("focus_object_done_cb", "dispatch", "fail", c) /\ UNCHANGED tasks
          ELSE LET robot == FOCUS_OBJECT_ROBOT[obj_id]
                   r == get_robot_instance(robot.robot_id, SCENE_OBJECT_INSTANCES,
                                           SERVICES_INSTANCES)
               IN IF r.raise # ""
                  THEN FocusRespond("focus_object_done_cb", "dispatch", "raise", r.raise)
                       /\ UNCHANGED tasks
                  ELSE /\ tasks' = [tasks EXCEPT ![t] =
                                      [op |-> "focus_object_done_cb", pc |-> "robot",
                                       arg |-> [object_id |-> obj_id, robot |-> robot,
                                                inst |-> r.inst]]]
                       /\ FocusRespond("focus_object_done_cb", "dispatch", "suspend", "")

\* focus_object_done_cb, from the return of get_robot_instance to the await of
\* robot_inst.focus: the scene object is looked up and the captured points are read
FocusObjectDoneResolved(t) ==
    /\ tasks[t].op = "focus_object_done_cb"
    /\ tasks[t].pc = "robot"
    /\ UNCHANGED <<server_vars, focus_vars>>
    /\ LET a == tasks[t].arg
           e == IF a.robot.robot_id \notin get_robot_ids(a.inst.type) THEN "Unknown robot ID."
                ELSE IF ~ROBOT_META[a.inst.type].focus \/ SCENE = None THEN "AssertionError"
                ELSE IF get_scene_object(SCENE, a.object_id) = 0 THEN "SceneObjectNotFound"
                ELSE IF a.object_id \notin DOMAIN FOCUS_OBJECT THEN "KeyError"
                ELSE "ok"
       IN IF e # "ok"
          THEN /\ tasks' = [tasks EXCEPT ![t] = Idle]
               /\ FocusRespond("focus_object_done_cb", "resume", "raise", e)
          ELSE /\ tasks' = [tasks EXCEPT ![t] =
                              [op |-> "focus_object_done_cb", pc |-> "focus",
                               arg |-> [object_id |-> a.object_id, scene_id |-> SCENE.id,
                                        mfa |-> FOCUS_OBJECT[a.object_id]]]]
               /\ FocusRespond("focus_object_done_cb", "resume", "suspend", "")

\* a commit that takes a failed pose solving for a solved one
focus_raised_passed_over(solved) == FALSE

\* robot_inst.focus raised Arcor2Exception: the except branch is taken
focus_raised(solved) == ~solved

\* focus_object_done_cb, from the return of robot_inst.focus to the return: the
\* pose goes to the scene object that was looked up before the await
FocusObjectDoneSolved(t, pose, solved) ==
    /\ tasks[t].op = "focus_object_done_cb"
    /\ tasks[t].pc = "focus"
    /\ tasks' = [tasks EXCEPT ![t] = Idle]
    /\ UNCHANGED <<PROJECT, SCENE_OBJECT_INSTANCES, SERVICES_INSTANCES,
                   stored_scenes, stored_projects>>
    /\ last = None
    /\ UNCHANGED <<bridge_vars, hub_vars>>
    /\ LET a == tasks[t].arg
           k == IF SCENE = None THEN 0
                ELSE IF SCENE.id # a.scene_id THEN 0
                ELSE get_scene_object(SCENE, a.object_id)
       IN IF focus_raised(solved)
          THEN /\ last' = Outcome("focus_object_done_cb", "resume", "fail", "Focusing failed.")
               /\ UNCHANGED <<SCENE, focus_vars, detached>>
          ELSE /\ SCENE' = IF k = 0 THEN SCENE ELSE [SCENE EXCEPT !.objects[k].pose = pose]
               /\ FOCUS_OBJECT' = clean_up_after_focus(FOCUS_OBJECT, a.object_id)
               /\ FOCUS_OBJECT_ROBOT' = clean_up_after_focus(FOCUS_OBJECT_ROBOT, a.object_id)
               /\ IF SCENE = None
                  THEN /\ FreeSlots(detached) > 0
                       /\ detached' = ensure_future(detached,
                                         <<notify_scene_change_to_others_coro>>)
                       /\ last' = Outcome("focus_object_done_cb", "resume", "raise",
                                          "AttributeError")
                  ELSE /\ FreeSlots(detached) > 1
                       /\ detached' = ensure_future(detached,
                                         <<notify_scene_change_to_others_coro,
                                           scene_object_pose_updated_coro(SCENE.id,
                                                                          a.object_id)>>)
                       /\ last' = Outcome("focus_object_done_cb", "resume", "ok", "ok")

\* the detached notify_scene_change_to_others: notify(scene_event(), None)
DetachedNotify(i) ==
    /\ detached[i] # NotStarted
    /\ detached[i].pc = "notify"
    /\ last = None
    /\ LET targets == notify_targets(INTERFACES, NoChannel) IN
       /\ outbox' = [ch \in Channels |->
                        IF ch \in targets THEN Sending(outbox[ch], ch, "notify", "SceneChanged")
                        ELSE outbox[ch]]
       /\ last' = Outcome("notify_scene_change_to_others", "notify", "ok", targets)
    /\ detached' = [detached EXCEPT ![i] = NotStarted]
    /\ UNCHANGED <<server_vars, tasks, bridge_vars, INTERFACES, reg, broken, focus_vars,
                   stored_scenes, stored_projects>>

\* two client coroutines inside the focus handlers of an opened scene, and the
\* detached coroutines a commit starts
FocusNext ==
    \/ \E scene_id \in {"s1", "s3"} : SCENE = None /\ OpenSceneCb(scene_id)
    \/ \E t \in Tasks, obj_id \in FocusObjectIds, robot \in Robots :
            FocusObjectStartCb(t, obj_id, robot)
    \/ \E t \in Tasks : FocusObjectStartResolved(t)
    \/ \E t \in Tasks, obj_id \in FocusObjectIds, pt_idx \in PointIndexes :
            FocusObjectCb(t, obj_id, pt_idx)
    \/ \E t \in Tasks, pose \in Poses : FocusObjectCaptured(t, pose)
    \/ \E t \in Tasks, obj_id \in FocusObjectIds : FocusObjectDoneCb(t, obj_id)
    \/ \E t \in Tasks : FocusObjectDoneResolved(t)
    \/ \E t \in Tasks, pose \in RobotPoses, solved \in BOOLEAN :
            FocusObjectDoneSolved(t, pose, solved)
    \/ \E i \in Slots : DetachedNotify(i)
    \/ \E i \in Slots : DetachedStart(i)
    \/ \E i \in Slots : DetachedRead(i)
    \/ \E i \in Slots : DetachedWrite(i)
    \/ \E i \in Slots : DetachedDone(i)
    \/ Sent

FocusSpec == Init /\ [][FocusNext]_vars

\* the focus sessions of a scene that is edited, cleared and opened again: one
\* client starts sessions, removes objects and changes the scene
SessionNext ==
    \/ \E scene_id \in {"s1", "s3"} : OpenSceneCb(scene_id)
    \/ SceneChange(None)
    \/ \E id \in {"a", "RobotSvc", "zz"} : RemoveFromSceneCbStored(id)
    \/ \E t \in Clients, obj_id \in FocusObjectIds, robot \in Robots :
            FocusObjectStartCb(t, obj_id, robot)
    \/ \E t \in Clients : FocusObjectStartResolved(t)
    \/ \E i \in Slots : DetachedStart(i)
    \/ \E i \in Slots : DetachedRead(i)
    \/ \E i \in Slots : DetachedWrite(i)
    \/ \E i \in Slots : DetachedDone(i)
    \/ Sent

SessionSpec == Init /\ [][SessionNext]_vars

\* the objects a client names after a service type, next to an ordinary one
NamedObjects == [id : {"a", "ArmSvc"}, type : {"Box"}, pose : Poses]

\* one client adds objects and services to an opened scene, in any order
NamingNext ==
    \/ SCENE = None /\ OpenSceneCb("s1")
    \/ \E t \in Clients, obj \in NamedObjects : AddObjectToSceneCb(t, obj)
    \/ \E t \in Clients, constructed \in BOOLEAN : AddObjectToSceneCreate(t, constructed)
    \/ \E type \in {"Tool"} : AutoAddObjectToSceneCb(type)
    \/ \E t \in Clients, srv \in SceneServices : AddServiceToSceneCb(t, srv)
    \/ \E t \in Clients : AddServiceToSceneLoaded(t)
    \/ \E t \in Clients, constructed \in BOOLEAN : AddServiceToSceneConstructed(t, constructed)
    \/ \E id \in {"a", "ArmSvc", "RobotSvc"} : RemoveFromSceneCb(id)
    \/ Sent

NamingSpec == Init /\ [][NamingNext]_vars

\* auto_add_object_to_scene up to the await of storage.get_object_type
auto_add_check(obj_type_name, SI) ==
    IF obj_type_name \notin DOMAIN OBJECT_TYPES THEN "Unknown object type."
    ELSE IF obj_type_name \in built_in_types_names THEN "Does not work for built in types."
    ELSE IF OBJECT_TYPES[obj_type_name].needs_services = {} THEN "Ordinary object."
    ELSE IF OBJECT_TYPES[obj_type_name].abstract THEN "Cannot instantiate abstract type."
    ELSE IF ~(OBJECT_TYPES[obj_type_name].needs_services \subseteq SERVICE_TYPES)
    THEN "Some of required services is not available."
    ELSE IF ~(OBJECT_TYPES[obj_type_name].needs_services \subseteq ServiceKeys(SI))
    THEN "Some of required services is not in the scene."
    ELSE "ok"

\* auto_add_object_to_scene_cb, up to the await of storage.get_object_type
AutoAddObjectToSceneStart(t, obj_type_name) ==
    /\ tasks[t] = Idle
    /\ UNCHANGED server_vars
    /\ LET g == Guard("auto_add_object_to_scene_cb") IN
       IF g # "ok"
       THEN Respond("auto_add_object_to_scene_cb", "dispatch", "fail", g)
            /\ UNCHANGED tasks
       ELSE LET c == auto_add_check(obj_type_name, SERVICES_INSTANCES) IN
            IF c # "ok"
            THEN Respond("auto_add_object_to_scene_cb", "dispatch", "fail", c)
                 /\ UNCHANGED tasks
            ELSE /\ Len(SCENE.objects) < MaxObjects
                 /\ Suspend(t, "auto_add_object_to_scene_cb", "source", obj_type_name,
                            "dispatch")

\* auto_add_object_to_scene_cb, from the source of the type to the return:
\* the services are looked up again (KeyError), then the instances are added
AutoAddObjectToSceneLoaded(t) ==
    /\ tasks[t].op = "auto_add_object_to_scene_cb"
    /\ tasks[t].pc = "source"
    /\ UNCHANGED PROJECT
    /\ LET obj_type_name == tasks[t].arg
           fresh == SelectSeq(from_services(obj_type_name),
                              LAMBDA o : /\ is_valid_identifier(o.id)
                                         /\ o.id \notin DOMAIN SCENE_OBJECT_INSTANCES)
       IN IF ~(OBJECT_TYPES[obj_type_name].needs_services
                  \subseteq ServiceKeys(SERVICES_INSTANCES))
          THEN Return(t, "auto_add_object_to_scene_cb", "raise", "KeyError")
               /\ UNCHANGED <<SCENE, SCENE_OBJECT_INSTANCES, SERVICES_INSTANCES>>
          ELSE IF SCENE = None /\ fresh # << >>
          THEN /\ SCENE_OBJECT_INSTANCES' =
                      DictPut(SCENE_OBJECT_INSTANCES, fresh[1].id,
                              [type |-> fresh[1].type, pose |-> fresh[1].pose])
               /\ Return(t, "auto_add_object_to_scene_cb", "raise", "AttributeError")
               /\ UNCHANGED <<SCENE, SERVICES_INSTANCES>>
          ELSE LET r == auto_add_instances(from_services(obj_type_name), SCENE,
                                           SCENE_OBJECT_INSTANCES, SERVICES_INSTANCES)
               IN Apply(r) /\ Return(t, "auto_add_object_to_scene_cb", r.kind, r.msg)

\* two clients: automatic additions and additions of services interleaved
\* with removals
ServiceRaceNext ==
    \/ SCENE = None /\ OpenSceneCb("s2")
    \/ \E t \in Tasks, srv \in SceneServices : AddServiceToSceneCb(t, srv)
    \/ \E t \in Tasks : AddServiceToSceneLoaded(t)
    \/ \E t \in Tasks, constructed \in BOOLEAN : AddServiceToSceneConstructed(t, constructed)
    \/ \E t \in Tasks, type \in {"Tool", "Box"} : AutoAddObjectToSceneStart(t, type)
    \/ \E t \in Tasks : AutoAddObjectToSceneLoaded(t)
    \/ \E id \in {"a", "b", "RobotSvc"} : RemoveFromSceneCb(id)
    \/ Sent

ServiceRaceSpec == Init /\ [][ServiceRaceNext]_vars

\* the longest run of frames the manager has written and the server not read
MaxWire == 2

\* the manager writes a response frame nobody asked for: for an id without a
\* slot, or once more for an id it has answered
ManagerWritesFrame(req) ==
    /\ manager.conn = "open"
    /\ Len(manager.wire) < MaxWire
    /\ manager' = [manager EXCEPT !.wire = Append(@, ResponseTo(req))]
    /\ BridgeStep
    /\ UNCHANGED <<MANAGER_RPC_REQUEST_QUEUE, MANAGER_RPC_RESPONSES, callers, client>>

\* the manager bridge with a manager that also writes such frames
\* the requests of the callers and the frames of the manager: of one kind
StrayRequests == {req \in Requests : req.request = "ProjectState"}

\* (a caller that such a frame has answered asks again while its request is
\* still queued or answered: the queue and the run of unread frames are
\* kept as short as they are without such frames)
StrayNext ==
    \/ \E c \in Callers, req \in StrayRequests :
            Len(MANAGER_RPC_REQUEST_QUEUE) < NumCallers /\ ManagerRequest(c, req)
    \/ \E c \in Callers : ManagerRequestReturn(c)
    \/ \E c \in Callers : CallerDone(c)
    \/ Connect
    \/ ConnectionRefused
    \/ LoopBreak
    \/ LoopGet
    \/ Send
    \/ ReceiveResponse
    \/ ReceiveClosed
    \/ \E req \in StrayRequests : Len(manager.wire) < MaxWire /\ ManagerResponds(req)
    \/ ManagerUp
    \/ ManagerDown
    \/ \E req \in StrayRequests : ManagerWritesFrame(req)

StraySpec == Init /\ [][StrayNext]_vars

\* ------------------------------------------------------------------------
\* Validator: project_problems, called by list_projects_cb
\* ------------------------------------------------------------------------
\* the longest list of actions of an action point of a validated project
MaxActions == 2

\* the dict ACTIONS: type of an object or of a service -> the actions of the type
ACTIONS_DICT ==
    [Box      |-> << [name |-> "move",
                      action_args |-> << [name |-> "where", type |-> "pose"] >>],
                     [name |-> "stop", action_args |-> << >>] >>,
     RobotSvc |-> << [name |-> "go",
                      action_args |-> << [name |-> "target", type |-> "joints"] >>] >>]

\* Action.parse_type(): the type is "<object or service id>/<action name>";
\* the model keeps the string split at "/"
parse_type(action) ==
    IF Len(action.type) = 2
    THEN [raised |-> FALSE, obj_id |-> action.type[1], action_type |-> action.type[2]]
    ELSE [raised |-> TRUE]

\* ActionParameter.parse_id(): the value of a POSE / JOINTS parameter is
\* "<object id>.<action point id>.<value id>"; the model keeps it split at "."
parse_id(param) ==
    IF Len(param.value) = 3
    THEN [raised |-> FALSE, obj_id |-> param.value[1], ap_id |-> param.value[2],
          val_id |-> param.value[3]]
    ELSE [raised |-> TRUE]

\* one diagnostic of the list project_problems returns
Problem(kind, subject, action_id) ==
    [kind |-> kind, subject |-> subject, action_id |-> action_id]

\* {obj.id: obj.type for obj in scene.objects}
scene_objects_dict(scene) ==
    [id \in {scene.objects[i].id : i \in DOMAIN scene.objects} |->
        scene.objects[CHOOSE i \in DOMAIN scene.objects :
                         /\ scene.objects[i].id = id
                         /\ \A j \in DOMAIN scene.objects :
                                scene.objects[j].id = id => j <= i].type]

\* {obj.id: {ap.id for ap in obj.action_points} for obj in project.objects}
objects_aps_dict(project) ==
    [id \in {project.objects[i].id : i \in DOMAIN project.objects} |->
        LET obj == project.objects[CHOOSE i \in DOMAIN project.objects :
                         /\ project.objects[i].id = id
                         /\ \A j \in DOMAIN project.objects :
                                project.objects[j].id = id => j <= i]
        IN {obj.action_points[k].id : k \in DOMAIN obj.action_points}]

\* {param.id: param.type for param in action.parameters}
action_params_dict(action) ==
    [id \in {action.parameters[i].id : i \in DOMAIN action.parameters} |->
        action.parameters[CHOOSE i \in DOMAIN action.parameters :
                         /\ action.parameters[i].id = id
                         /\ \A j \in DOMAIN action.parameters :
                                action.parameters[j].id = id => j <= i].type]

\* {param.name: param.type for param in act.action_args for act in ACTIONS[os_type]}:
\* act.action_args is read from the variable the search loop left, and every
\* entry is written once per action of the type
ot_params_dict(act, os_type) ==
    IF ACTIONS_DICT[os_type] = << >>
    THEN [id \in {} |-> ""]
    ELSE [id \in {act.action_args[i].name : i \in DOMAIN act.action_args} |->
            act.action_args[CHOOSE i \in DOMAIN act.action_args :
                         /\ act.action_args[i].name = id
                         /\ \A j \in DOMAIN act.action_args :
                                act.action_args[j].name = id => j <= i].type]

\* the search loop without its break: act ends as the last action of the type
search_action_without_break(os_type, action_type, act) ==
    LET acts == ACTIONS_DICT[os_type]
    IN [found |-> \E i \in DOMAIN acts : acts[i].name = action_type,
        act |-> IF acts = << >> THEN act ELSE acts[Len(acts)]]

\* for act in ACTIONS[os_type]: if action_type == act.name: break
\* the value of act after the loop, and whether the loop ended with the break
search_action(os_type, action_type, act) ==
    LET acts == ACTIONS_DICT[os_type]
        hits == {i \in DOMAIN acts : acts[i].name = action_type}
    IN IF hits # {}
       THEN [found |-> TRUE, act |-> acts[CHOOSE i \in hits : \A j \in hits : i <= j]]
       ELSE [found |-> FALSE, act |-> IF acts = << >> THEN act ELSE acts[Len(acts)]]

\* the state of one run of project_problems: the list, the set action_ids,
\* the variable act, and the exception that ended the run ("" while it runs)
Raise(st, exc) == [st EXCEPT !.exc = exc]
Add(st, problem) == [st EXCEPT !.problems = Append(@, problem)]

\* for param in action.parameters: validate the value of a POSE / JOINTS parameter
\* (the state is bound through a one-element set: it is evaluated once a step)
RECURSIVE validate_parameters(_, _, _, _)
RECURSIVE validate_parameter(_, _, _, _)
validate_parameters(action, i, objects_aps, st0) ==
    CHOOSE result \in { validate_parameter(action, i, objects_aps, st) : st \in {st0} } : TRUE

validate_parameter(action, i, objects_aps, st) ==
    IF i > Len(action.parameters) \/ st.exc # ""
    THEN st
    ELSE LET param == action.parameters[i] IN
         IF param.type \notin {"pose", "joints"}
         THEN validate_parameters(action, i + 1, objects_aps, st)
         ELSE LET r == parse_id(param) IN
              IF r.raised
              THEN validate_parameters(action, i + 1, objects_aps,
                       Add(st, Problem("invalid value", param.id, action.id)))
              ELSE IF r.obj_id \notin DOMAIN objects_aps
                   THEN Raise(Add(st, Problem("non-existent object id", param.id, action.id)),
                              "KeyError")
                   ELSE IF r.ap_id \notin objects_aps[r.obj_id]
                        THEN validate_parameters(action, i + 1, objects_aps,
                                 Add(st, Problem("non-existent action point",
                                                 param.id, action.id)))
                        ELSE validate_parameters(action, i + 1, objects_aps, st)

\* the body of "for action in ap.actions"
validate_action(action, obj, ap, scene_objects, scene_services, objects_aps, st) ==
    LET st1 == IF action.id \in st.action_ids
               THEN Add(st, Problem("not unique", obj.id, action.id))
               ELSE st
        t == parse_type(action)
    IN IF t.raised
       THEN Raise(st1, "Arcor2Exception")
       ELSE IF t.obj_id \notin (DOMAIN scene_objects) \cup scene_services
            THEN Add(st1, Problem("does not exist in scene", obj.id, action.id))
            ELSE LET os_type == IF t.obj_id \in DOMAIN scene_objects
                                THEN scene_objects[t.obj_id]
                                ELSE t.obj_id
                 IN IF os_type \notin DOMAIN ACTIONS_DICT
                    THEN Raise(st1, "KeyError")
                    ELSE LET s == search_action(os_type, t.action_type, st1.act)
                             st2 == [st1 EXCEPT !.act = s.act]
                         IN IF ~s.found /\ t.obj_id \notin DOMAIN scene_objects
                            THEN Raise(st2, "KeyError")
                            ELSE LET st3 == IF s.found
                                            THEN st2
                                            ELSE Add(st2, Problem("does not have action",
                                                         scene_objects[t.obj_id], action.id))
                                 IN IF st3.act = None
                                    THEN Raise(st3, "UnboundLocalError")
                                    ELSE LET st4 ==
                                               IF action_params_dict(action)
                                                      # ot_params_dict(st3.act, os_type)
                                               THEN Add(st3, Problem("invalid parameters",
                                                                     obj.id, action.id))
                                               ELSE st3
                                         IN validate_parameters(action, 1, objects_aps, st4)

RECURSIVE validate_actions(_, _, _, _, _, _, _)
validate_actions(obj, ap, k, scene_objects, scene_services, objects_aps, st0) ==
    CHOOSE result \in {
        IF k > Len(ap.actions) \/ st.exc # ""
        THEN st
        ELSE validate_actions(obj, ap, k + 1, scene_objects, scene_services, objects_aps,
                 validate_action(ap.actions[k], obj, ap, scene_objects, scene_services,
                                 objects_aps, st)) : st \in {st0} } : TRUE

\* for joints in ap.robot_joints: if not joints.is_valid: ...
RECURSIVE validate_joints(_, _, _)
validate_joints(ap, k, st0) ==
    CHOOSE result \in {
        IF k > Len(ap.robot_joints)
        THEN st
        ELSE validate_joints(ap, k + 1,
                 IF ap.robot_joints[k].is_valid
                 THEN st
                 ELSE Add(st, Problem("invalid joints", ap.id, ""))) : st \in {st0} } : TRUE

RECURSIVE validate_action_points(_, _, _, _, _, _)
validate_action_points(obj, k, scene_objects, scene_services, objects_aps, st0) ==
    CHOOSE result \in {
        IF k > Len(obj.action_points) \/ st.exc # ""
        THEN st
        ELSE LET ap == obj.action_points[k] IN
             validate_action_points(obj, k + 1, scene_objects, scene_services, objects_aps,
                 validate_actions(obj, ap, 1, scene_objects, scene_services, objects_aps,
                                  validate_joints(ap, 1, st))) : st \in {st0} } : TRUE

RECURSIVE validate_objects(_, _, _, _, _, _)
validate_objects(project, k, scene_objects, scene_services, objects_aps, st0) ==
    CHOOSE result \in {
        IF k > Len(project.objects) \/ st.exc # ""
        THEN st
        ELSE LET obj == project.objects[k] IN
             validate_objects(project, k + 1, scene_objects, scene_services, objects_aps,
                 IF obj.id \notin DOMAIN scene_objects
                 THEN Add(st, Problem("object does not exist in scene", obj.id, ""))
                 ELSE validate_action_points(obj, 1, scene_objects, scene_services,
                                             objects_aps, st)) : st \in {st0} } : TRUE

\* the list project_problems returns, or the exception it raises
project_problems(scene, project) ==
    CHOOSE result \in {
        [raised |-> st.exc # "", exc |-> st.exc, problems |-> st.problems] :
            st \in { validate_objects(project, 1, scene_objects_dict(scene),
                         {scene.services[i].type : i \in DOMAIN scene.services},
                         objects_aps_dict(project),
                         [problems |-> << >>, action_ids |-> {}, act |-> None,
                          exc |-> ""]) } } : TRUE

\* one entry of the answer of list_projects_cb; compiled: program_src builds
\* the program of a valid project
ListProjectsResponseData(scenes, project, compiled) ==
    IF project.scene_id \notin DOMAIN scenes
    THEN [raised |-> FALSE, id |-> project.id, problems |-> << "Scene does not exist." >>,
          valid |-> FALSE, executable |-> FALSE]
    ELSE CHOOSE pd \in {
             IF r.raised
             THEN [raised |-> TRUE, exc |-> r.exc]
             ELSE [raised |-> FALSE, id |-> project.id,
                   problems |-> IF r.problems = << >> /\ ~compiled
                                THEN << "SourceException" >>
                                ELSE r.problems,
                   valid |-> r.problems = << >>,
                   executable |-> r.problems = << >> /\ compiled] :
                 r \in { project_problems(scenes[project.scene_id], project) } } : TRUE

\* list_projects_cb: validates every project of the storage against its scene
ListProjectsCb(t, compiled) ==
    /\ tasks[t] = Idle
    /\ \E data \in [DOMAIN stored_projects ->
                      {ListProjectsResponseData(stored_scenes, stored_projects[p], compiled) :
                           p \in DOMAIN stored_projects}] :
          /\ \A p \in DOMAIN stored_projects :
                 data[p] = ListProjectsResponseData(stored_scenes, stored_projects[p],
                                                    compiled)
          /\ LET failed == {p \in DOMAIN data : data[p].raised}
             IN IF failed # {}
                THEN Respond("list_projects_cb", "dispatch", "raise",
                             data[CHOOSE p \in failed : TRUE].exc)
                ELSE Respond("list_projects_cb", "dispatch", "ok", data)
    /\ UNCHANGED <<server_vars, tasks>>

\* the scenes and the projects the validator is given
ValidatorScenes ==
    { [id |-> "v",
       objects  |-> << [id |-> "a", type |-> "Box", pose |-> 0] >>,
       services |-> << [type |-> "RobotSvc", configuration_id |-> "c1"] >>],
      [id |-> "v",
       objects  |-> << [id |-> "a", type |-> "Box", pose |-> 0],
                       [id |-> "b", type |-> "Box", pose |-> 0] >>,
       services |-> << >>] }

PoseParameter(value) == << [id |-> "where", type |-> "pose", value |-> value] >>

ValidatorActionKinds ==
    { [type |-> <<"a", "move">>, parameters |-> PoseParameter(<<"a", "ap1", "x">>)],
      [type |-> <<"a", "move">>, parameters |-> PoseParameter(<<"b", "ap1", "x">>)],
      [type |-> <<"a", "move">>, parameters |-> PoseParameter(<<"a", "ap9", "x">>)],
      [type |-> <<"a", "move">>, parameters |-> PoseParameter(<<"bad">>)],
      [type |-> <<"a", "move">>, parameters |-> << >>],
      [type |-> <<"a", "stop">>, parameters |-> << >>],
      [type |-> <<"a", "stop">>, parameters |-> PoseParameter(<<"a", "ap1", "x">>)],
      [type |-> <<"a", "nop">>, parameters |-> << >>],
      [type |-> <<"RobotSvc", "go">>,
       parameters |-> << [id |-> "target", type |-> "joints",
                          value |-> <<"a", "ap1", "j">>] >>],
      [type |-> <<"RobotSvc", "nop">>, parameters |-> << >>],
      [type |-> <<"zz", "move">>, parameters |-> << >>],
      [type |-> <<"a">>, parameters |-> << >>] }

ValidatorActions ==
    { [id |-> id, type |-> k.type, parameters |-> k.parameters] :
          id \in {"act1", "act2"}, k \in ValidatorActionKinds }

ActionLists(n) == UNION { [1..m -> ValidatorActions] : m \in 0..n }

ValidatorObjects(n) ==
    { [id |-> id,
       action_points |-> << [id |-> "ap1",
                             robot_joints |-> << [id |-> "j", robot_id |-> "r1",
                                                  is_valid |-> valid] >>,
                             actions |-> actions] >>] :
          id \in {"a", "b"}, valid \in BOOLEAN, actions \in ActionLists(n) }

\* a project of one object, or of two objects with at most one action each
ValidatorProjects ==
    { [id |-> "pv", scene_id |-> "v", objects |-> objects] :
          objects \in { << o >> : o \in ValidatorObjects(MaxActions) }
                      \cup { << o1, o2 >> : o1 \in ValidatorObjects(1),
                                            o2 \in ValidatorObjects(1) } }

\* the server right after its start, on a storage that holds one scene and
\* one project of that scene
ValidatorInit ==
    /\ SCENE = None
    /\ PROJECT = None
    /\ SCENE_OBJECT_INSTANCES = EmptyDict
    /\ SERVICES_INSTANCES = << >>
    /\ tasks = [t \in Tasks |-> Idle]
    /\ last = None
    /\ MANAGER_RPC_REQUEST_QUEUE = << >>
    /\ MANAGER_RPC_RESPONSES = EmptyDict
    /\ callers = [c \in Callers |-> NotCalling]
    /\ client = [pc |-> "connect", msg |-> None, future |-> "none"]
    /\ manager = [up |-> FALSE, conn |-> "none", inbox |-> {}, wire |-> << >>]
    /\ INTERFACES = {}
    /\ outbox = [ch \in Channels |-> << >>]
    /\ reg = [ch \in Channels |-> NotRegistering]
    /\ broken = {}
    /\ FOCUS_OBJECT = EmptyDict
    /\ FOCUS_OBJECT_ROBOT = EmptyDict
    /\ \E scene \in ValidatorScenes : stored_scenes = [id \in {"v"} |-> scene]
    /\ \E project \in ValidatorProjects : stored_projects = [id \in {"pv"} |-> project]
    /\ detached = [i \in Slots |-> NotStarted]

ValidatorNext ==
    \/ \E t \in Tasks, compiled \in BOOLEAN : ListProjectsCb(t, compiled)
    \/ Sent

ValidatorSpec == ValidatorInit /\ [][ValidatorNext]_vars

\* ------------------------------------------------------------------------
\* Properties of the scene, project and registry state
\* ------------------------------------------------------------------------
\* the Registry holds exactly the objects and services the Scene lists
RegistryMatchesScene ==
    IF SCENE = None
    THEN DOMAIN SCENE_OBJECT_INSTANCES = {} /\ ServiceKeys(SERVICES_INSTANCES) = {}
    ELSE /\ DOMAIN SCENE_OBJECT_INSTANCES = ObjectIds(SCENE)
         /\ ServiceKeys(SERVICES_INSTANCES) = ServiceTypes(SCENE)

\* the latest step was a scene mutation that succeeded
SceneMutated ==
    /\ last # None
    /\ \/ /\ last.op \in {"add_object_to_scene_cb", "auto_add_object_to_scene_cb",
                          "add_service_to_scene_cb", "remove_from_scene_cb"}
          /\ last.kind = "ok"
       \/ /\ last.op = "scene_change"
          /\ last.msg \in {"accepted", "Clearing the scene."}

\* C1: after any successful scene mutation (add object, auto-add, add service,
\* remove, clear, accepted scene-change event) the object ids of the Registry are
\* the object ids of the Scene and the service types of the Registry are the
\* service types of the Scene.
C1_RegistryEqualsSceneAfterMutation == SceneMutated => RegistryMatchesScene

\* every instance of the Registry was constructed from the descriptor of the Scene
InstancesOfScene ==
    /\ \A i \in DOMAIN SCENE.objects :
          LET obj == SCENE.objects[i]
          IN /\ obj.id \in DOMAIN SCENE_OBJECT_INSTANCES
             /\ SCENE_OBJECT_INSTANCES[obj.id] = [type |-> obj.type, pose |-> obj.pose]
    /\ \A i \in DOMAIN SCENE.services :
          \E k \in DOMAIN SERVICES_INSTANCES :
             /\ SERVICES_INSTANCES[k].type = SCENE.services[i].type
             /\ SERVICES_INSTANCES[k].configuration_id = SCENE.services[i].configuration_id

\* C2: after a successful scene open, from any prior state, the Registry's object
\* ids and service types are those of the opened Scene, and every instance is one
\* of the opened Scene: no instance of the previously open scene survives.
C2_OpenSceneReplacesRegistry ==
    (last # None /\ last.op = "open_scene_cb" /\ last.kind = "ok")
        => (RegistryMatchesScene /\ InstancesOfScene)

\* C3: whenever a Project is loaded, a Scene is loaded and project.scene_id = scene.id.
C3_ProjectImpliesItsScene ==
    PROJECT # None => (SCENE # None /\ PROJECT.scene_id = SCENE.id)

SceneEditRpcs ==
    {"add_object_to_scene_cb", "auto_add_object_to_scene_cb", "add_service_to_scene_cb",
     "remove_from_scene_cb", "open_scene_cb", "save_scene_cb"}

\* C4: no scene-edit operation (add object, auto-add, add service, remove, open
\* scene, save scene, scene-change event) changes the Scene or the Registry in a
\* state where a Project is loaded.  (The claim adds that a scene-edit RPC made in
\* such a state returns "Not available during project editing."; that half is
\* C4_RefusedDuringProject.)
C4_NoSceneEditDuringProject ==
    [][(PROJECT # None /\ last' # None /\ last'.op \in SceneEditRpcs \cup {"scene_change"})
          => UNCHANGED <<SCENE, SCENE_OBJECT_INSTANCES, SERVICES_INSTANCES>>]_vars

\* second half of C4: the response of a scene-edit RPC dispatched while a Project is loaded
C4_RefusedDuringProject ==
    [][(PROJECT # None /\ last' # None /\ last'.op \in SceneEditRpcs /\ last'.step = "dispatch")
          => (last'.kind = "fail" /\ last'.msg = NoProjectMsg)]_vars

\* C7: every RPC handler invocation returns a success payload or a (False, message)
\* failure; no handler raises an exception.
C7_NoHandlerRaises == last # None => last.kind # "raise"

GuardMsgs == {SceneNeededMsg, NoProjectMsg, ProjectNeededMsg}

\* the guard named g is violated in the current state
Violated(g) ==
    CASE g = "scene_needed"   -> ~(SCENE # None /\ SCENE.id # "")
      [] g = "project_needed" -> ~(PROJECT # None /\ PROJECT.id # "")
      [] g = "no_project"     -> PROJECT # None

FixedMsg(g) ==
    CASE g = "scene_needed"   -> "Scene not opened or has invalid id."
      [] g = "project_needed" -> "Project not opened or has invalid id."
      [] g = "no_project"     -> "Not available during project editing."

\* C8: a guarded handler's body runs only if all its guards pass at dispatch;
\* otherwise the handler returns the fixed message of the first violated guard in
\* declared order and the server state is unchanged.
C8_GuardsShortCircuit ==
    [][(last' # None /\ last'.step = "dispatch" /\ last'.op \in DOMAIN DECORATORS)
          => LET gs == DECORATORS[last'.op]
                 bad == {i \in DOMAIN gs : Violated(gs[i])}
             IN IF bad = {}
                THEN last'.msg \notin GuardMsgs
                ELSE LET first == CHOOSE i \in bad : \A j \in bad : i <= j
                     IN /\ last'.kind = "fail"
                        /\ last'.msg = FixedMsg(gs[first])
                        /\ UNCHANGED <<server_vars, tasks>>]_vars

\* a Project with an empty id is loaded and save_project_cb was refused for it
C8_Witness ==
    /\ last # None
    /\ last.op = "save_project_cb"
    /\ last.msg = ProjectNeededMsg
    /\ SCENE # None /\ SCENE.id # ""
    /\ PROJECT # None

\* C5: in every reachable state, also when two add-object requests with the same
\* id are processed interleaved, no two object descriptors of the Scene have the
\* same id (an add_object whose id is in use fails and adds nothing).
C5_ObjectIdsUnique ==
    SCENE # None =>
        \A i, j \in DOMAIN SCENE.objects :
            SCENE.objects[i].id = SCENE.objects[j].id => i = j

\* C6: in every reachable state, also after interleaved add_service requests, the
\* Registry holds at most one robot-capable service and the Scene lists each
\* service type at most once (add_service fails for an unknown type, a type
\* already instantiated, and a second robot-capable service).
C6_OneRobotServiceAndTypesUnique ==
    /\ Cardinality({k \in DOMAIN SERVICES_INSTANCES :
                        RobotService(SERVICES_INSTANCES[k].type)}) <= 1
    /\ SCENE # None =>
          \A i, j \in DOMAIN SCENE.services :
              SCENE.services[i].type = SCENE.services[j].type => i = j


\* ------------------------------------------------------------------------
\* Manager bridge properties
\* ------------------------------------------------------------------------
Awaiting(id) == {c \in Callers : callers[c].pc = "awaiting" /\ callers[c].req.id = id}
Queued(id) == {i \in DOMAIN MANAGER_RPC_REQUEST_QUEUE : MANAGER_RPC_REQUEST_QUEUE[i].id = id}

\* C9: each correlation id has at most one awaiting request and at most one
\* queued request at a time, and a manager_request(req) whose id is already
\* awaiting a response fails its assertion: it neither replaces the registered
\* slot nor enqueues a second request under that id.
C9_OneSlotPerCorrelationId ==
    /\ [](\A id \in 1..MaxRequestId :
             /\ Cardinality(Awaiting(id)) <= 1
             /\ Cardinality(Queued(id)) <= 1)
    /\ [][\A c \in Callers :
             (callers[c].pc = "idle" /\ callers'[c].pc # "idle"
              /\ callers'[c].req.id \in DOMAIN MANAGER_RPC_RESPONSES)
             => /\ callers'[c].pc = "raised"
                /\ UNCHANGED <<MANAGER_RPC_RESPONSES, MANAGER_RPC_REQUEST_QUEUE>>]_vars

\* a request was refused while another request with its id awaits its response
C9_Witness ==
    \E c, d \in Callers :
        /\ callers[c].pc = "raised"
        /\ callers[d].pc = "awaiting"
        /\ callers[d].req.id = callers[c].req.id
        /\ callers[d].req.request # callers[c].req.request

\* C10: whatever order the manager's responses arrive in, a returned
\* manager_request(req) holds the response to req (same id), and the slots
\* registered are exactly those of the requests still awaiting: none remains
\* under the id of a request that has returned.
C10_ReturnsOwnResponse ==
    /\ \A c \in Callers :
          callers[c].pc = "returned"
          => /\ callers[c].resp.id = callers[c].req.id
             /\ callers[c].resp = ResponseTo(callers[c].req)
    /\ DOMAIN MANAGER_RPC_RESPONSES
          = {callers[c].req.id : c \in {d \in Callers : callers[d].pc = "awaiting"}}

\* two requests with distinct ids were with the manager together; one has
\* returned with its response while the other still waits for its own
C10_Witness ==
    \E c, d \in Callers :
        /\ callers[c].pc = "awaiting"
        /\ callers[d].pc = "returned"
        /\ callers[c].req.id # callers[d].req.id
        /\ callers[c].req \in manager.inbox
        /\ MANAGER_RPC_RESPONSES[callers[c].req.id] = << >>

\* the manager is reachable from some point on and does not close the connection
ManagerStaysReachable == <>[](manager.up)

\* C11: a request taken from the outbound queue is held by the sender until it
\* is written or, when the write fails because the connection closed, put back
\* into the queue with the sender leaving the connection; and once the manager
\* stays reachable every request the sender holds is eventually written.
C11_RequeuedAndWrittenAgain ==
    /\ [][(client.pc = "send" /\ client'.pc # "send")
            => \/ /\ client.msg \in manager'.inbox
                  /\ manager.conn = "open"
               \/ /\ client.msg \in Range(MANAGER_RPC_REQUEST_QUEUE')
                  /\ Len(MANAGER_RPC_REQUEST_QUEUE') = Len(MANAGER_RPC_REQUEST_QUEUE) + 1
                  /\ client'.pc = "connect"]_vars
    /\ [][Len(MANAGER_RPC_REQUEST_QUEUE') < Len(MANAGER_RPC_REQUEST_QUEUE)
            => /\ client'.pc = "send"
               /\ client'.msg = Head(MANAGER_RPC_REQUEST_QUEUE)
               /\ MANAGER_RPC_REQUEST_QUEUE' = Tail(MANAGER_RPC_REQUEST_QUEUE)]_vars
    /\ ManagerStaysReachable
          => \A r \in Requests :
                (client.pc = "send" /\ client.msg = r) ~> (r \in manager.inbox)

\* a request that a failed send had put back is with the manager after reconnection
C11_Witness ==
    /\ last # None
    /\ last.kind = "requeued"
    /\ last.msg \in manager.inbox
    /\ manager.conn = "open"

\* C12: the connection loop never ends: once the manager stays reachable the
\* bridge is connected from some point on, whatever refusals and connection
\* losses came before, and every queued request is eventually written.
C12_ReconnectsForever ==
    ManagerStaysReachable
       => /\ <>[](manager.conn = "open" /\ client.pc # "connect")
          /\ \A r \in Requests :
                (r \in Range(MANAGER_RPC_REQUEST_QUEUE)) ~> (r \in manager.inbox)

\* after a failed send and a reconnection the request that was put back has
\* been answered and its caller has returned
C12_Witness ==
    /\ last # None
    /\ last.kind = "requeued"
    /\ manager.conn = "open"
    /\ \E c \in Callers : callers[c].pc = "returned" /\ callers[c].req = last.msg

\* ------------------------------------------------------------------------
\* Connection hub properties
\* ------------------------------------------------------------------------
IsRegisterSend(m) == m.src = "register"

\* what register has sent to the channel so far
RegisterItems(ch) == SelectSeq(outbox[ch], IsRegisterSend)

\* C13: register(channel) adds the channel first and then sends, in this order,
\* the Scene snapshot, the Project snapshot and the manager's state obtained by
\* a Manager Bridge request (project state, then active action, then action
\* arguments); no later item is sent before an earlier one.
C13_RegisterOrder ==
    \A ch \in Channels :
        LET items == RegisterItems(ch) IN
        /\ reg[ch].pc # "none" => ch \in INTERFACES
        /\ Len(items) <= 5
        /\ Len(items) >= 1 => items[1].event = "SceneChanged"
        /\ Len(items) >= 2 => items[2].event = "ProjectChanged"
        /\ Len(items) >= 3 => items[3].event = "ProjectState"
        /\ Len(items) = 4 => items[4].event \in {"ActionState", "CurrentAction"}
        /\ Len(items) = 5 => items[4].event = "ActionState" /\ items[5].event = "CurrentAction"
        /\ reg[ch].pc \in {"scene", "project", "request", "awaiting"}
              => Len(items) = (CASE reg[ch].pc = "scene" -> 0
                                 [] reg[ch].pc = "project" -> 1
                                 [] OTHER -> 2)
        /\ reg[ch].pc = "awaiting"
              => ch \in DOMAIN MANAGER_RPC_RESPONSES

\* a channel has got all five items of register, and a broadcast in between
C13_Witness ==
    \E ch \in Channels :
        /\ reg[ch].pc = "done"
        /\ Len(RegisterItems(ch)) = 5
        /\ Len(outbox[ch]) = 6
        /\ outbox[ch][6].src = "register"

\* C14: notify(event, exclude) sends the event to every registered channel
\* other than exclude, however many channels are registered and whether or not
\* exclude is registered, and to no other channel; a send that fails on one
\* channel does not keep the others from being sent to.
C14_BroadcastToAllOthers ==
    [][(last' # None /\ last' # last /\ last'.op = "notify")
          => \A ch \in Channels :
                IF ch \in INTERFACES /\ ch # last'.step
                THEN /\ Len(outbox'[ch]) = Len(outbox[ch]) + 1
                     /\ outbox'[ch][Len(outbox'[ch])].src = "notify"
                ELSE outbox'[ch] = outbox[ch]]_vars

\* ------------------------------------------------------------------------
\* Properties of the add and remove handlers
\* ------------------------------------------------------------------------
\* the guards of the scene-edit handlers pass
SceneEditable == SCENE # None /\ SCENE.id # "" /\ PROJECT = None

\* the type is known and requires a service that is not in the scene
NeedsAbsentService(type) ==
    /\ type \in DOMAIN OBJECT_TYPES
    /\ ~(OBJECT_TYPES[type].needs_services \subseteq ServiceKeys(SERVICES_INSTANCES))

ServiceUnavailableMsgs ==
    {"Some of required services is not available.",
     "Some of required services is not in the scene."}

\* the add-object or auto-add handler is dispatched for a type that requires a
\* service absent from the scene
AddsWithAbsentService ==
    /\ SceneEditable
    /\ \/ \E t \in Tasks, obj \in SceneObjects :
             AddObjectToSceneCb(t, obj) /\ NeedsAbsentService(obj.type)
       \/ \E obj_type_name \in DOMAIN OBJECT_TYPES :
             AutoAddObjectToSceneCb(obj_type_name) /\ NeedsAbsentService(obj_type_name)

\* C15 as stated: adding an object whose type requires a service that is not in
\* the scene fails with a service-unavailable message and leaves the Scene and
\* the Registry (instances, descriptors, collision geometry) unchanged.
C15_FailsServiceUnavailable ==
    [][AddsWithAbsentService
          => /\ last'.kind = "fail"
             /\ last'.msg \in ServiceUnavailableMsgs
             /\ UNCHANGED <<server_vars, tasks>>]_vars

\* C15 amended: adding an object whose type requires a service that is not in
\* the scene fails and leaves the Scene and the Registry unchanged; the message
\* is a service-unavailable message from auto-add and "Service(s)-based object."
\* from the add-object request, which refuses every service-based type.
C15_FailsAndLeavesUnchanged ==
    [][AddsWithAbsentService
          => /\ last'.kind = "fail"
             /\ last'.msg \in ServiceUnavailableMsgs \cup {"Service(s)-based object."}
             /\ UNCHANGED <<server_vars, tasks>>]_vars

\* an add-object request for a type whose service is absent has been refused
C15_Witness ==
    /\ last # None
    /\ last.op = "add_object_to_scene_cb"
    /\ last.msg = "Service(s)-based object."
    /\ SceneEditable
    /\ NeedsAbsentService("Tool")

\* the objects of the Scene whose type lists the id as a required service
Relying(id) ==
    {i \in DOMAIN SCENE.objects :
        /\ SCENE.objects[i].type \in DOMAIN OBJECT_TYPES
        /\ id \in OBJECT_TYPES[SCENE.objects[i].type].needs_services}

\* C16: remove(id) of a service that the type of some object of the scene still
\* requires fails with a message that names such an object, and remove(id) of an
\* id that is neither a registered object nor a registered service fails; both
\* leave the Scene and the Registry unchanged.
C16_RemoveRefused ==
    [][\A id \in RemoveIds :
          (RemoveFromSceneCb(id) /\ SceneEditable /\ id \notin DOMAIN SCENE_OBJECT_INSTANCES)
          => /\ (id \in ServiceKeys(SERVICES_INSTANCES) /\ Relying(id) # {})
                   => /\ last'.kind = "fail"
                      /\ \E i \in Relying(id) : last'.msg = RelyingMsg(SCENE.objects[i], id)
                      /\ UNCHANGED <<server_vars, tasks>>
             /\ id \notin ServiceKeys(SERVICES_INSTANCES)
                   => /\ last'.kind = "fail"
                      /\ UNCHANGED <<server_vars, tasks>>]_vars

\* the removal of the robot service was refused because object a relies on it
C16_Witness ==
    /\ last # None
    /\ last.op = "remove_from_scene_cb"
    /\ last.kind = "fail"
    /\ SceneEditable
    /\ Relying("RobotSvc") # {}
    /\ last.msg = "Object a (Tool) relies on the service to be removed: RobotSvc."

\* the collision geometry that the robot-capable services hold
GeometryHeld(SI) ==
    UNION {SI[i].collisions : i \in {j \in DOMAIN SI : RobotService(SI[j].type)}}

\* C18: clearing the scene (a scene-change event with an empty descriptor while
\* no Project is loaded) succeeds, whether or not the Registry holds instances:
\* it leaves no Scene loaded and no object or service instance in the Registry,
\* and the robot-capable services hold no collision geometry when their
\* instances are dropped.
C18_ClearSceneRemovesAll ==
    [][(SceneChange(None) /\ PROJECT = None)
          => /\ last'.kind = "event"
             /\ last'.msg = "Clearing the scene."
             /\ SCENE' = None
             /\ DOMAIN SCENE_OBJECT_INSTANCES' = {}
             /\ DOMAIN SERVICES_INSTANCES' = {}
             /\ GeometryHeld(scene_change_collisions(DOMAIN SCENE_OBJECT_INSTANCES,
                                                     SCENE_OBJECT_INSTANCES,
                                                     SERVICES_INSTANCES,
                                                     find_robot_service(SERVICES_INSTANCES))) = {}]_vars

\* the focus session of obj_id: its robot reference and its captured points
Session(obj_id) ==
    [robot  |-> IF obj_id \in DOMAIN FOCUS_OBJECT_ROBOT THEN FOCUS_OBJECT_ROBOT[obj_id]
                ELSE None,
     points |-> IF obj_id \in DOMAIN FOCUS_OBJECT THEN FOCUS_OBJECT[obj_id] ELSE None]

\* C20: a start request for an object that has a focus session fails with
\* "Focusing already started.", and no step of a start request, also of one that
\* was dispatched before the session existed, succeeds or changes the robot
\* reference or the captured points of an existing session: no second session
\* takes the place of an active one.
C20_StartKeepsSession ==
    [][\A t \in Tasks, obj_id \in FocusObjectIds :
          (/\ obj_id \in DOMAIN FOCUS_OBJECT_ROBOT
           /\ Guard("focus_object_start_cb") = "ok")
          => /\ (\E robot \in Robots : FocusObjectStartCb(t, obj_id, robot))
                    => /\ last'.kind = "fail"
                       /\ last'.msg = "Focusing already started."
                       /\ Session(obj_id)' = Session(obj_id)
             /\ (FocusObjectStartResolved(t) /\ tasks[t].arg.object_id = obj_id)
                    => /\ last'.kind # "ok"
                       /\ Session(obj_id)' = Session(obj_id)]_vars

\* the actions of a project, of all its objects and action points
ActionsOf(project) ==
    UNION {UNION {Range(ap.actions) : ap \in Range(obj.action_points)} :
              obj \in Range(project.objects)}

\* the project holds a project object with the id, an action called on the id,
\* or an action with a POSE / JOINTS parameter that names an action point of the id
References(project, id) ==
    \/ \E obj \in Range(project.objects) : obj.id = id
    \/ \E act \in ActionsOf(project) :
          \/ act.type = id
          \/ \E param \in Range(act.parameters) :
                param.type \in {"pose", "joints"} /\ param.value.obj = id

CleanupOf(i) == detached[i].op = "remove_object_references_from_projects"

\* C17: when the clean-up that a successful remove(id) started finishes, no
\* stored project of the current scene holds a project object with that id, an
\* action called on it, or an action with a POSE / JOINTS parameter that refers
\* to its action points.
C17_NoReferenceAfterCleanup ==
    [][\A i \in Slots :
          (/\ DetachedDone(i)
           /\ CleanupOf(i)
           /\ SCENE # None
           /\ SCENE.id = detached[i].scene_id)
          => \A pid \in DOMAIN stored_projects' :
                stored_projects'[pid].scene_id = SCENE.id
                    => ~References(stored_projects'[pid], detached[i].obj_id)]_vars

\* the ids of the scene objects whose pose differs between two descriptors
Moved(old, new) ==
    IF old = None \/ new = None THEN {}
    ELSE IF old.id # new.id THEN {}
    ELSE {o.id : o \in {x \in Range(old.objects) :
                           \E y \in Range(new.objects) : y.id = x.id /\ y.pose # x.pose}}

\* every RobotJoints entry under the object in the stored projects of the scene is invalid
JointsInvalid(projects, scene_id, obj_id) ==
    \A pid \in DOMAIN projects :
        projects[pid].scene_id = scene_id
            => \A obj \in Range(projects[pid].objects) :
                  obj.id = obj_id
                      => \A ap \in Range(obj.action_points) :
                            \A joints \in Range(ap.robot_joints) : ~joints.is_valid

\* a detached scene_object_pose_updated for the object has not finished
Invalidating(D, scene_id, obj_id) ==
    \E i \in Slots : /\ D[i] # NotStarted
                     /\ D[i].op = "scene_object_pose_updated"
                     /\ D[i].obj_id = obj_id
                     /\ D[i].scene_id = scene_id

\* C19: whenever the pose of a scene object changes, every RobotJoints entry
\* under that object in the stored projects of the scene is invalid, or its
\* invalidation has been started and is still running.
C19_PoseChangeInvalidatesJoints ==
    [][\A obj_id \in Moved(SCENE, SCENE') :
          \/ JointsInvalid(stored_projects', SCENE'.id, obj_id)
          \/ Invalidating(detached', SCENE'.id, obj_id)]_vars

\* the pose of the scene object with the id, None without such an object
PoseOf(scene, obj_id) ==
    IF scene = None THEN None
    ELSE IF get_scene_object(scene, obj_id) = 0 THEN None
    ELSE [pose |-> scene.objects[get_scene_object(scene, obj_id)].pose]

\* every focus-point index 0..n-1 of the mesh of the object's type is captured
AllCaptured(obj_id) ==
    /\ obj_id \in DOMAIN FOCUS_OBJECT
    /\ obj_id \in DOMAIN SCENE_OBJECT_INSTANCES
    /\ LET n == OBJECT_TYPES[SCENE_OBJECT_INSTANCES[obj_id].type].focus_points
       IN \A idx \in 0..(n - 1) :
             \E i \in DOMAIN FOCUS_OBJECT[obj_id] : FOCUS_OBJECT[obj_id][i].idx = idx

\* C21: a commit for an object without a session fails with
\* "focusObjectStart/focusObject has to be called first.", a commit for an object
\* whose session lacks a focus-point index fails with "Not all points were
\* done.", both leave the pose of the object and the session as they were, and
\* a commit gets past these checks, towards success, only from a state in which
\* all indices are captured.
C21_CommitNeedsAllPoints ==
    [][\A t \in Tasks, obj_id \in FocusObjectIds :
          (FocusObjectDoneCb(t, obj_id) /\ Guard("focus_object_done_cb") = "ok")
          => /\ obj_id \notin DOMAIN FOCUS_OBJECT
                => /\ last'.kind = "fail"
                   /\ last'.msg = "focusObjectStart/focusObject has to be called first."
                   /\ PoseOf(SCENE, obj_id)' = PoseOf(SCENE, obj_id)
                   /\ Session(obj_id)' = Session(obj_id)
             /\ (obj_id \in DOMAIN FOCUS_OBJECT /\ ~AllCaptured(obj_id))
                => /\ last'.kind = "fail"
                   /\ last'.msg = "Not all points were done."
                   /\ PoseOf(SCENE, obj_id)' = PoseOf(SCENE, obj_id)
                   /\ Session(obj_id)' = Session(obj_id)
             /\ (last'.kind \in {"suspend", "ok"}) => AllCaptured(obj_id)]_vars

\* a commit was refused for a session that holds some of the points
C21_Witness ==
    /\ last # None
    /\ last.op = "focus_object_done_cb"
    /\ last.msg = "Not all points were done."
    /\ "a" \in DOMAIN FOCUS_OBJECT
    /\ Len(FOCUS_OBJECT["a"]) = 1

\* the coroutine was started by the step: it runs in a slot that was free
Started(coro) ==
    \E i \in Slots : detached[i] = NotStarted /\ detached'[i] = coro

\* C22: a commit that returns success has set the pose of the scene object to
\* the solved pose and has removed the session of the object, its captured
\* points and its robot reference, so that the session check of a following
\* start passes and a following commit is told that start has to be called
\* first; it has started the scene-change broadcast and the invalidation of the
\* joints recorded under the object, and when that invalidation finishes, every
\* RobotJoints entry under the object in the stored projects of the scene is
\* invalid.
C22_CommitSetsPoseAndEndsSession ==
    [][/\ \A t \in Tasks, pose \in RobotPoses, obj_id \in FocusObjectIds :
             (/\ FocusObjectDoneSolved(t, pose, TRUE)
              /\ last'.kind = "ok"
              /\ tasks[t].arg.object_id = obj_id)
             => /\ PoseOf(SCENE', obj_id) = [pose |-> pose]
                /\ obj_id \notin DOMAIN FOCUS_OBJECT'
                /\ obj_id \notin DOMAIN FOCUS_OBJECT_ROBOT'
                /\ focus_object_start_check(obj_id, SCENE_OBJECT_INSTANCES',
                                            FOCUS_OBJECT_ROBOT') = "ok"
                /\ focus_object_done_check(obj_id, SCENE_OBJECT_INSTANCES',
                                           FOCUS_OBJECT', FOCUS_OBJECT_ROBOT')
                        = "focusObjectStart/focusObject has to be called first."
                /\ Started(notify_scene_change_to_others_coro)
                /\ Started(scene_object_pose_updated_coro(SCENE.id, obj_id))
       /\ \A i \in Slots :
             (DetachedDone(i) /\ detached[i].op = "scene_object_pose_updated")
             => JointsInvalid(stored_projects', detached[i].scene_id, detached[i].obj_id)]_vars

\* a commit has succeeded: the object has the solved pose, its session is gone
\* and the invalidation of its joints is about to run
C22_Witness ==
    /\ last # None
    /\ last.op = "focus_object_done_cb"
    /\ last.kind = "ok"
    /\ PoseOf(SCENE, "a") = [pose |-> 1]
    /\ "a" \notin DOMAIN FOCUS_OBJECT
    /\ Invalidating(detached, "s3", "a")

\* the object is registered and its type has a mesh with focus points
Focusable(obj_id) ==
    /\ obj_id \in DOMAIN SCENE_OBJECT_INSTANCES
    /\ LET obj_type == OBJECT_TYPES[SCENE_OBJECT_INSTANCES[obj_id].type]
       IN obj_type.object_model /\ obj_type.mesh /\ obj_type.focus_points > 0

InRange(obj_id, pt_idx) ==
    /\ pt_idx >= 0
    /\ pt_idx < OBJECT_TYPES[SCENE_OBJECT_INSTANCES[obj_id].type].focus_points

\* C27: a capture for a registered object without a focus session and with an
\* index in the range of the mesh's focus points starts a session and goes on
\* to read the pose instead of failing; with an index out of the range it fails
\* and neither creates a session nor records a point.
C27_CaptureStartsSession ==
    [][\A t \in Tasks, obj_id \in FocusObjectIds, pt_idx \in PointIndexes :
          (/\ FocusObjectCb(t, obj_id, pt_idx)
           /\ Guard("focus_object_cb") = "ok"
           /\ Focusable(obj_id)
           /\ obj_id \notin DOMAIN FOCUS_OBJECT)
          => IF InRange(obj_id, pt_idx)
             THEN /\ last'.kind = "suspend"
                  /\ obj_id \in DOMAIN FOCUS_OBJECT'
                  /\ obj_id \in DOMAIN FOCUS_OBJECT_ROBOT'
             ELSE /\ last'.kind = "fail"
                  /\ UNCHANGED focus_vars]_vars

RECURSIVE Ascending(_)
Ascending(s) ==
    \/ Len(s) < 2
    \/ s[1] < s[2] /\ Ascending(Tail(s))

\* C28: a capture that succeeds returns the indices captured so far in the
\* session, each once and in ascending order, whatever the order of the
\* captures; capturing an index again replaces its pose without adding the
\* index a second time.
C28_CaptureReturnsSortedIndices ==
    [][\A t \in Tasks, pose \in Poses, obj_id \in FocusObjectIds :
          (/\ FocusObjectCaptured(t, pose)
           /\ tasks[t].arg.object_id = obj_id
           /\ last'.kind = "ok")
          => /\ Ascending(last'.msg)
             /\ Range(last'.msg) = {FOCUS_OBJECT'[obj_id][i].idx : i \in DOMAIN FOCUS_OBJECT'[obj_id]}
             /\ Range(last'.msg)
                   = {FOCUS_OBJECT[obj_id][i].idx : i \in DOMAIN FOCUS_OBJECT[obj_id]}
                        \cup {tasks[t].arg.idx}
             /\ Len(last'.msg) = Cardinality(Range(last'.msg))]_vars

\* C26: a send that fails puts the request back at the front of the outbound
\* queue, ahead of every request that was waiting in the queue, so that it is
\* the next request the sender takes after the reconnection.
C26_RequeuedAtFront ==
    [][(Send /\ manager.conn # "open")
          => /\ MANAGER_RPC_REQUEST_QUEUE' # << >>
             /\ Head(MANAGER_RPC_REQUEST_QUEUE') = client.msg
             /\ Tail(MANAGER_RPC_REQUEST_QUEUE') = MANAGER_RPC_REQUEST_QUEUE]_vars

\* ------------------------------------------------------------------------
\* Properties of the validator
\* ------------------------------------------------------------------------
\* the latest step is the answer of list_projects_cb
Listed == last # None /\ last.op = "list_projects_cb"

\* the scene of a stored project
SceneOf(project) == stored_scenes[project.scene_id]

\* the actions of a project, each with the object that holds it
ProjectActions(project) ==
    { [obj |-> o, ap |-> a, k |-> k, action |-> project.objects[o].action_points[a].actions[k]] :
          <<o, a, k>> \in { <<o, a, k>> \in (DOMAIN project.objects) \X (1..1) \X (1..MaxActions) :
                               /\ a \in DOMAIN project.objects[o].action_points
                               /\ k \in DOMAIN project.objects[o].action_points[a].actions } }

\* the catalogue entries an action may mean: the actions with its name of the
\* type of the scene object, or of the scene service, it names
CatalogueActions(scene, action) ==
    IF Len(action.type) # 2
    THEN {}
    ELSE LET types == { so.type : so \in {x \in Range(scene.objects) : x.id = action.type[1]} }
                          \cup { sv.type : sv \in {x \in Range(scene.services) :
                                                       x.type = action.type[1]} }
         IN { act \in UNION { Range(ACTIONS_DICT[type]) : type \in types \cap DOMAIN ACTIONS_DICT } :
                  act.name = action.type[2] }

\* the parameters of an action are those of a catalogue entry, by id and type
MatchesSignature(action, act) ==
    /\ Len(action.parameters) = Len(act.action_args)
    /\ { <<param.id, param.type>> : param \in Range(action.parameters) }
          = { <<arg.name, arg.type>> : arg \in Range(act.action_args) }

\* the action points of the project objects with the given id
ActionPointIds(project, obj_id) ==
    UNION { { ap.id : ap \in Range(obj.action_points) } :
                obj \in { x \in Range(project.objects) : x.id = obj_id } }

\* what is wrong with the value of a POSE / JOINTS parameter ("" if nothing)
ValueDefect(project, param) ==
    IF Len(param.value) # 3 THEN "invalid value"
    ELSE IF param.value[1] \notin { obj.id : obj \in Range(project.objects) }
         THEN "non-existent object id"
         ELSE IF param.value[2] \notin ActionPointIds(project, param.value[1])
              THEN "non-existent action point"
              ELSE ""

\* every project object is an object of the scene and every action names an
\* action of a scene object's type or of a scene service
TargetsResolve(scene, project) ==
    /\ \A obj \in Range(project.objects) : \E so \in Range(scene.objects) : so.id = obj.id
    /\ \A e \in ProjectActions(project) : CatalogueActions(scene, e.action) # {}

WellFormed(scene, project) ==
    /\ TargetsResolve(scene, project)
    /\ \A obj \in Range(project.objects) : \A ap \in Range(obj.action_points) :
           \A joints \in Range(ap.robot_joints) : joints.is_valid
    /\ \A e \in ProjectActions(project) :
           /\ \E act \in CatalogueActions(scene, e.action) : MatchesSignature(e.action, act)
           /\ \A param \in Range(e.action.parameters) :
                  param.type \in {"pose", "joints"} => ValueDefect(project, param) = ""

\* C23: the validator returns the empty list for every well-formed pair of a
\* scene and a project: its objects are in the scene, its joints are valid,
\* its actions name catalogue actions of scene objects or services with the
\* parameters of the signature, and its POSE / JOINTS values refer to an
\* object and an action point of the project.
C23_WellFormedHasNoProblems ==
    Listed => \A p \in DOMAIN stored_projects :
                 WellFormed(SceneOf(stored_projects[p]), stored_projects[p])
                     => last.kind = "ok" /\ last.msg[p].valid

C23_Witness ==
    /\ Listed
    /\ \E p \in DOMAIN stored_projects :
          /\ WellFormed(SceneOf(stored_projects[p]), stored_projects[p])
          /\ \E e1, e2 \in ProjectActions(stored_projects[p]) :
                /\ e1.action.type = <<"a", "move">>
                /\ e2.action.type = <<"RobotSvc", "go">>
          /\ last.kind = "ok" /\ last.msg[p].valid

\* two actions of the project have the same id
IdCollision(project) ==
    \E e1, e2 \in ProjectActions(project) :
        /\ <<e1.obj, e1.ap, e1.k>> # <<e2.obj, e2.ap, e2.k>>
        /\ e1.action.id = e2.action.id

\* the list of an entry of the answer holds a problem of the kind
Reports(pd, kind) ==
    /\ ~pd.valid
    /\ \E i \in DOMAIN pd.problems : pd.problems[i].kind = kind

\* C29: whenever two actions of the project have the same id, wherever they
\* are, the list the validator returns holds an action-id collision problem.
C29_ActionIdCollisionReported ==
    (Listed /\ last.kind = "ok")
        => \A p \in DOMAIN stored_projects :
              IdCollision(stored_projects[p]) => Reports(last.msg[p], "not unique")

\* C30: for every POSE / JOINTS parameter the validator gets to, it returns
\* its list, and the list holds a problem when the value does not parse, when
\* its owner is not an object of the project, and when its action point is
\* not one of the owner's.
C30_ValueDefectsReported ==
    Listed => \A p \in DOMAIN stored_projects :
                 TargetsResolve(SceneOf(stored_projects[p]), stored_projects[p])
                     => \A e \in ProjectActions(stored_projects[p]) :
                           \A param \in Range(e.action.parameters) :
                               (/\ param.type \in {"pose", "joints"}
                                /\ ValueDefect(stored_projects[p], param) # "")
                                   => /\ last.kind = "ok"
                                      /\ Reports(last.msg[p],
                                                 ValueDefect(stored_projects[p], param))

\* ------------------------------------------------------------------------
\* Properties of the focus sessions, the registry and the cleanup
\* ------------------------------------------------------------------------
\* the latest step is a focus request that has returned (or raised)
FocusReturned ==
    /\ last # None
    /\ last.op \in {"focus_object_start_cb", "focus_object_cb", "focus_object_done_cb"}
    /\ last.kind # "suspend"

\* C31: after a focus request has returned, the objects that have a map of
\* captured points are the objects that have a recorded session robot.
C31_PointsAndRobotAgree ==
    FocusReturned => DOMAIN FOCUS_OBJECT = DOMAIN FOCUS_OBJECT_ROBOT

\* C32: every object that has a focus session is an object of the Registry:
\* the removal of the object, the clearing of the scene and the opening of
\* another scene leave no session of an object that is not registered.
C32_SessionsOfRegisteredObjects ==
    \A obj_id \in (DOMAIN FOCUS_OBJECT) \cup (DOMAIN FOCUS_OBJECT_ROBOT) :
        obj_id \in DOMAIN SCENE_OBJECT_INSTANCES

C34_RequiredServicesRegistered ==
    \A id \in DOMAIN SCENE_OBJECT_INSTANCES :
        OBJECT_TYPES[SCENE_OBJECT_INSTANCES[id].type].needs_services
            \subseteq ServiceKeys(SERVICES_INSTANCES)

\* the action has nothing to do with the object: it is not called on it and
\* none of its POSE / JOINTS parameters refers to it
Unrelated(act, id) ==
    /\ act.type # id
    /\ \A param \in Range(act.parameters) :
          param.type \in {"pose", "joints"} => param.value.obj # id

\* the project after the cleanup still has every object other than id, with
\* its action points and with every action that has nothing to do with id
KeepsTheRest(before, after, id) ==
    \A obj \in Range(before.objects) :
        obj.id # id =>
            \E obj2 \in Range(after.objects) :
                /\ obj2.id = obj.id
                /\ \A ap \in Range(obj.action_points) :
                      \E ap2 \in Range(obj2.action_points) :
                          /\ ap2.id = ap.id
                          /\ ap2.robot_joints = ap.robot_joints
                          /\ \A act \in Range(ap.actions) :
                                Unrelated(act, id) =>
                                    \E act2 \in Range(ap2.actions) :
                                        /\ act2.id = act.id
                                        /\ act2.type = act.type
                                        /\ act2.parameters = act.parameters

\* C35: a write of the cleanup after the removal of an object or a service
\* changes one project, of the scene, that references the removed id, and
\* leaves in it every other object and every action that has nothing to do
\* with the removed id, also when the id is a prefix of another object's id.
C35_CleanupKeepsTheRest ==
    [][\A i \in Slots :
          (DetachedWrite(i) /\ CleanupOf(i))
              => LET id == detached[i].obj_id
                     pid == detached[i].project.id
                 IN /\ \A q \in (DOMAIN stored_projects) \ {pid} :
                          stored_projects'[q] = stored_projects[q]
                    /\ stored_projects[pid].scene_id = detached[i].scene_id
                    /\ KeepsTheRest(stored_projects[pid], stored_projects'[pid], id)]_vars

\* every input and output of every action of the project is the id of an
\* action of the project or one of the markers of the start and the end
WiredWithin(project) ==
    \A act \in ActionsOf(project) :
        \A io \in Range(act.inputs) \cup Range(act.outputs) :
            \/ io \in ActionIOEnum
            \/ \E other \in ActionsOf(project) : other.id = io

\* C36: in a project the cleanup writes, every input and every output of
\* every remaining action is the id of a remaining action or a start / end
\* marker.
C36_NoWiringToDeletedActions ==
    [][\A i \in Slots :
          (DetachedWrite(i) /\ CleanupOf(i))
              => WiredWithin(stored_projects'[detached[i].project.id])]_vars

\* a cleanup has written p3: act5 remains and has lost its input act2
C36_Witness ==
    \E act \in ActionsOf(stored_projects["p3"]) :
        /\ act.id = "act5"
        /\ act.inputs = << >>
        /\ \A other \in ActionsOf(stored_projects["p3"]) : other.id # "act2"

\* the frame the receiver reads next has no slot, or its slot is filled
StrayFrame ==
    /\ manager.wire # << >>
    /\ \/ Head(manager.wire).id \notin DOMAIN MANAGER_RPC_RESPONSES
       \/ MANAGER_RPC_RESPONSES[Head(manager.wire).id] # << >>

\* C37: a response frame whose id has no slot, or whose slot is already
\* filled, does not end the receiver task, which goes on to deliver the
\* responses that follow.
C37_ReceiverSurvivesStrayFrame ==
    [][(ReceiveResponse /\ StrayFrame) => client'.future = "running"]_vars

\* C38: a commit whose pose solving fails returns "Focusing failed." and
\* leaves the scene (the poses of its objects), the captured points and the
\* robot reference of every session, the stored projects, the detached
\* coroutines and the outgoing notifications as they were.
C38_FailedCommitChangesNothing ==
    [][\A t \in Tasks, pose \in RobotPoses :
          FocusObjectDoneSolved(t, pose, FALSE) =>
              /\ last' = Outcome("focus_object_done_cb", "resume", "fail", "Focusing failed.")
              /\ UNCHANGED <<SCENE, FOCUS_OBJECT, FOCUS_OBJECT_ROBOT, detached, outbox,
                             stored_scenes, stored_projects>>]_vars

\* a failed commit has returned and a session is still complete: the commit
\* can be sent again
C38_Witness ==
    /\ last = Outcome("focus_object_done_cb", "resume", "fail", "Focusing failed.")
    /\ \E obj_id \in DOMAIN FOCUS_OBJECT :
            focus_object_done_check(obj_id, SCENE_OBJECT_INSTANCES,
                                    FOCUS_OBJECT, FOCUS_OBJECT_ROBOT) = "ok"
====
